---- MODULE Spec2Model ----
(***************************************************************************)
(* Model of the query pipeline of the legislative bill browser:            *)
(*   QueryProcessor.processQuery -> LLMService.queryDocument ->            *)
(*   makeApiCall -> handleToolCallsRecursively -> executeToolCalls ->      *)
(*   the five tool executors -> DocumentParser.searchSections, and         *)
(*   LLMService.parseResponse / QueryProcessor.formatResponse.             *)
(*                                                                         *)
(* JavaScript values are tagged records [t, n, w]: t is the type tag, n    *)
(* the numeric value, w the words of a string (the pieces between \W+      *)
(* separators) or the items of an array of strings.                        *)
(***************************************************************************)
EXTENDS Integers, Sequences, FiniteSets, TLC

VARIABLES
    isInitialized,        \* DocumentParser.isInitialized
    documentData,         \* DocumentParser.documentData
    pc,                   \* position of the one query being handled
    query,                \* the query string passed to processQuery
    conversationHistory,  \* handleToolCallsRecursively: conversationHistory
    currentResponse,      \* the latest reply of the model (response.data)
    iterationCount,       \* handleToolCallsRecursively: iterationCount
    requests,             \* every axios.post issued for the query, in order
    toolRuns,             \* the batches executeToolCalls has run, in order
    failure,              \* how an axios.post of the query failed, or "none"
    result,               \* the value processQuery returned
    args,                 \* the arguments of a single function that is called
                          \* on its own (indexer, search, response normalizer)
    cache,                \* CacheService: the entries of the NodeCache, hitCount
                          \* and missCount
    client                \* the browser client: App.state, the submit button,
                          \* the query input and the requests in flight

vars == <<isInitialized, documentData, pc, query, conversationHistory,
          currentResponse, iterationCount, requests, toolRuns, failure,
          result, args, cache, client>>

-----------------------------------------------------------------------------
(* Bounds of the model *)

NumSections == 5
MaxToolCalls == 3

(* Program constants *)

maxIterations == 3
ResultCap == 3
DefaultMaxResults == 3
DefaultLimit == 10
McpDefaultMaxResults == 5
ApiTimeout == 60000
MaxKeyPoints == 5

-----------------------------------------------------------------------------
(* JavaScript values *)

Undef    == [t |-> "undefined", n |-> 0, w |-> <<>>]
Null     == [t |-> "null",      n |-> 0, w |-> <<>>]
NaN      == [t |-> "nan",       n |-> 0, w |-> <<>>]
Num(n)   == [t |-> "number",    n |-> n, w |-> <<>>]
Str(w)   == [t |-> "string",    n |-> 0, w |-> w]
Arr(w)   == [t |-> "array",     n |-> 0, w |-> w]

\* JavaScript truthiness, as used by `!parsedContent[field]` and `a || b`
Truthy(v) ==
    /\ v.t \notin {"undefined", "null", "nan"}
    /\ ~(v.t = "number" /\ v.n = 0)
    /\ ~(v.t = "string" /\ v.w \in {<<>>, <<"">>})

Min(a, b) == IF a <= b THEN a ELSE b
Max(a, b) == IF a >= b THEN a ELSE b

\* Math.min(v, 3): ToNumber of the first argument, NaN is contagious
MathMin(v, k) ==
    CASE v.t = "number" -> Num(Min(v.n, k))
      [] v.t = "null"   -> Num(Min(0, k))
      [] OTHER          -> NaN

\* Array.prototype.slice(1, end) in the place of slice(0, end)
SliceFromOne(seq, end) ==
    LET e == IF end.t = "number" THEN end.n ELSE 0
        k == IF e < 0 THEN Max(Len(seq) + e, 0) ELSE Min(e, Len(seq))
    IN  SubSeq(seq, 2, k)

\* Array.prototype.slice(0, end): NaN counts as 0, a negative end counts
\* from the back of the array, the end is clamped to the length
Slice0(seq, end) ==
    LET e == IF end.t = "number" THEN end.n ELSE 0
        k == IF e < 0 THEN Max(Len(seq) + e, 0) ELSE Min(e, Len(seq))
    IN  SubSeq(seq, 1, k)

RangeOf(seq) == {seq[i] : i \in 1..Len(seq)}

-----------------------------------------------------------------------------
(* textUtils *)

\* String.prototype.toLowerCase on the words of the model's vocabulary
toLowerCase(word) ==
    CASE word = "IRS"  -> "irs"
      [] word = "OR"   -> "or"
      [] word = "SNAP" -> "snap"
      [] word = "USDA" -> "usda"
      [] word = "EPA"  -> "epa"
      [] word = "HUD"  -> "hud"
      [] OTHER         -> word

stopWords ==
    {"the", "and", "or", "but", "in", "on", "at", "to", "for", "of", "with",
     "by", "from", "up", "about", "into", "through", "during", "before",
     "after", "above", "below", "between", "among", "a", "an",
     "as", "are", "was", "were", "been", "be", "have", "has", "had",
     "do", "does", "did", "will", "would", "could", "should", "may",
     "might", "must", "can", "shall", "this", "that", "these", "those"}

\* the words of the vocabulary that match /^\d+$/
NumericWords == {"2025", "119", "100"}

\* normalizeText: a value that is not a non-empty string yields ''
normalizeText(text) ==
    IF text.t = "string"
    THEN [i \in 1..Len(text.w) |-> toLowerCase(text.w[i])]
    ELSE <<>>

KeepWord(word) == Len(word) > 2 /\ word \notin stopWords
NotNumber(word) == word \notin NumericWords

\* extractKeywords without the stop-word test
extractKeywordsKeepingStopWords(text) ==
    IF text.t # "string" \/ text.w = <<>>
    THEN <<>>
    ELSE SelectSeq(SelectSeq(normalizeText(text), LAMBDA word : Len(word) > 2), NotNumber)

extractKeywords(text) ==
    IF text.t # "string" \/ text.w = <<>>
    THEN <<>>
    ELSE SelectSeq(SelectSeq(normalizeText(text), KeepWord), NotNumber)

-----------------------------------------------------------------------------
(* The document snapshot *)

IdTable == <<"H1A", "H2B", "H3C", "H4D", "H5E", "H6F", "H7G", "H8H">>

SectionIds == [i \in 1..NumSections |-> IdTable[i]]

SectionTitle(i) ==
    IF i % 2 = 1 THEN <<"tax", "relief">> ELSE <<"budget", "of", "2025">>

SectionFullText(i) ==
    SectionTitle(i) \o <<"the", "tax", "rate">>
        \o (IF i % 2 = 0 THEN <<"tax", "credit">> ELSE <<>>)
        \o (IF i = 1 THEN <<"farm", "subsidy", "program">> ELSE <<>>)
        \o (IF i = 3 THEN <<"income", "revenue", "IRS">> ELSE <<>>)

BuiltSections ==
    [id \in RangeOf(SectionIds) |->
        LET i == CHOOSE j \in 1..NumSections : SectionIds[j] = id
        IN  [id |-> id, title |-> Str(SectionTitle(i)),
             fullText |-> Str(SectionFullText(i)), level |-> 1]]

\* the keys that are array indices ("integer keys"), in ascending order
IntegerKeys == <<"1", "2", "3", "4", "5", "6", "7", "8", "9">>

\* the order in which Object.entries, Object.keys and for-in list the own
\* keys of an object whose keys were created in the order `keys`: the
\* integer keys in ascending order, then the others in creation order
ObjectKeys(keys) ==
    SelectSeq(IntegerKeys, LAMBDA k : k \in RangeOf(keys))
        \o SelectSeq(keys, LAMBDA k : k \notin RangeOf(IntegerKeys))

\* the keywords under which buildSearchIndex lists a section
IndexedWords(section) ==
    RangeOf(extractKeywords(section.title)) \cup RangeOf(extractKeywords(section.fullText))

\* buildSearchIndex with allKeywords = [...titleKeywords]
buildSearchIndexOfTitles(created, sections) ==
    [k \in UNION {RangeOf(extractKeywords(sections[id].title)) : id \in RangeOf(created)} |->
        SelectSeq(ObjectKeys(created),
                  LAMBDA id : k \in RangeOf(extractKeywords(sections[id].title)))]

\* buildSearchIndex: each section id is pushed once under every keyword of
\* its title and fullText, the sections being visited in the order of
\* Object.entries(sections); `created` is the order of their creation
buildSearchIndex(created, sections) ==
    [k \in UNION {IndexedWords(sections[id]) : id \in RangeOf(created)} |->
        SelectSeq(ObjectKeys(created), LAMBDA id : k \in IndexedWords(sections[id]))]

NoDocument == [sections |-> <<>>, searchIndex |-> <<>>]

buildDocumentStructure ==
    [sections |-> BuiltSections, searchIndex |-> buildSearchIndex(SectionIds, BuiltSections)]

-----------------------------------------------------------------------------
(* DocumentParser.searchSections *)

Count(seq, x) == Cardinality({i \in 1..Len(seq) : seq[i] = x})

\* the value of a one-element set (binds an intermediate result once)
TheOne(S) == CHOOSE x \in S : TRUE

\* the forEach loops: the section ids met while scanning the keywords from
\* the i-th on and the index list of each, one entry per increment of a score
RECURSIVE Hits(_, _, _)
Hits(index, keywords, i) ==
    IF i > Len(keywords) THEN <<>>
    ELSE (IF keywords[i] \in DOMAIN index THEN index[keywords[i]] ELSE <<>>)
            \o Hits(index, keywords, i + 1)

\* the keys of sectionScores in the order of their creation, which is the
\* order in which the ids are first met
RECURSIVE FirstSeen(_, _)
FirstSeen(hits, i) ==
    IF i > Len(hits) THEN <<>>
    ELSE (IF \E j \in 1..(i - 1) : hits[j] = hits[i] THEN <<>> ELSE <<hits[i]>>)
            \o FirstSeen(hits, i + 1)

\* Array.prototype.sort((a, b) => b[1] - a[1]), a stable sort: the keys with
\* score s, s - 1, ..., 1 in turn, each group in the order of `keys`
RECURSIVE SortByScore(_, _, _)
SortByScore(keys, hits, s) ==
    IF s <= 0 THEN <<>>
    ELSE SelectSeq(keys, LAMBDA id : Count(hits, id) = s)
            \o SortByScore(keys, hits, s - 1)

rankedSections(hits, limit) ==
    TheOne({ TheOne({ [i \in 1..Len(ranked) |->
                          [section |-> ranked[i], score |-> Count(hits, ranked[i])]]
                      : ranked \in {Slice0(SortByScore(keys, hits, Len(hits)), limit)} })
             : keys \in {ObjectKeys(FirstSeen(hits, 1))} })

\* the names every object inherits from Object.prototype that can be a
\* keyword (lower case, longer than two characters): for these
\* `searchIndex[keyword] || []` is not an array
PrototypeKeys == {"constructor", "__proto__"}

\* `limit = 10`: the default replaces undefined only
limitOf(limit) == IF limit.t = "undefined" THEN Num(DefaultLimit) ELSE limit

\* returns [threw, error, value]; value is the ranked list of {section, score}
searchSections(init, data, q, limit) ==
    IF ~init
    THEN [threw |-> TRUE, error |-> "Document parser not initialized", value |-> <<>>]
    ELSE IF \E k \in RangeOf(extractKeywords(q)) : k \in PrototypeKeys
    THEN [threw |-> TRUE, error |-> "TypeError: matchingSections.forEach", value |-> <<>>]
    ELSE [threw |-> FALSE, error |-> "",
          value |-> TheOne({rankedSections(hits, limitOf(limit))
                            : hits \in {Hits(data.searchIndex, extractKeywords(q), 1)}})]

-----------------------------------------------------------------------------
(* The tools of LLMService *)

ToolNames == {"search_sections", "get_section_by_id", "search_by_topic",
              "get_bill_overview", "search_financial_impact"}

\* the tools array of the payload built by makeApiCall
PayloadTools == ToolNames

topicKeywords ==
    [tax         |-> <<<<"tax">>, <<"taxes">>, <<"taxation">>, <<"income">>,
                       <<"deduction">>, <<"credit">>, <<"revenue">>, <<"IRS">>>>,
     defense     |-> <<<<"defense">>, <<"military">>, <<"armed", "forces">>,
                       <<"national", "security">>, <<"pentagon">>, <<"veteran">>>>,
     agriculture |-> <<<<"agriculture">>, <<"farm">>, <<"farming">>, <<"food">>,
                       <<"SNAP">>, <<"nutrition">>, <<"USDA">>, <<"crop">>>>,
     energy      |-> <<<<"energy">>, <<"oil">>, <<"gas">>, <<"petroleum">>,
                       <<"renewable">>, <<"solar">>, <<"wind">>, <<"coal">>>>,
     environment |-> <<<<"environment">>, <<"climate">>, <<"EPA">>, <<"pollution">>,
                       <<"emission">>, <<"green">>, <<"conservation">>>>,
     banking     |-> <<<<"banking">>, <<"finance">>, <<"financial">>, <<"bank">>,
                       <<"credit">>, <<"loan">>, <<"mortgage">>>>,
     healthcare  |-> <<<<"health">>, <<"medical">>, <<"medicare">>, <<"medicaid">>,
                       <<"hospital">>, <<"insurance">>, <<"doctor">>>>,
     education   |-> <<<<"education">>, <<"school">>, <<"student">>, <<"teacher">>,
                       <<"university">>, <<"college">>, <<"learning">>>>,
     immigration |-> <<<<"immigration">>, <<"immigrant">>, <<"border">>, <<"visa">>,
                       <<"citizenship">>, <<"deportation">>>>,
     housing     |-> <<<<"housing">>, <<"home">>, <<"rent">>, <<"mortgage">>,
                       <<"affordable", "housing">>, <<"HUD">>>>]

impactKeywords ==
    [appropriation |-> <<<<"appropriation">>, <<"appropriated">>, <<"appropriates">>,
                         <<"funds", "available">>>>,
     funding       |-> <<<<"funding">>, <<"funded">>, <<"fund">>, <<"allocated">>,
                         <<"allocation">>>>,
     cost          |-> <<<<"cost">>, <<"costs">>, <<"expense">>, <<"expenditure">>,
                         <<"budget">>>>,
     budget        |-> <<<<"budget">>, <<"budgeted">>, <<"budgetary">>, <<"fiscal">>>>,
     spending      |-> <<<<"spending">>, <<"spend">>, <<"expenditure">>, <<"outlay">>>>,
     revenue       |-> <<<<"revenue">>, <<"income">>, <<"receipts">>, <<"collections">>>>,
     tax_change    |-> <<<<"tax", "increase">>, <<"tax", "decrease">>, <<"tax", "rate">>,
                         <<"tax", "reform">>, <<"tax", "credit">>, <<"tax", "deduction">>>>]

\* keywords.join(' OR ') from the i-th keyword on, as the words of the string
RECURSIVE JoinOr(_, _)
JoinOr(keywords, i) ==
    IF i > Len(keywords) THEN <<>>
    ELSE IF i = Len(keywords) THEN keywords[i]
    ELSE keywords[i] \o <<"OR">> \o JoinOr(keywords, i + 1)

\* table[key.toLowerCase()] || [key]
ExpandKeywords(table, key) ==
    IF Len(key.w) = 1 /\ toLowerCase(key.w[1]) \in DOMAIN table
    THEN table[toLowerCase(key.w[1])]
    ELSE <<key.w>>

Returned(ids)  == [threw |-> FALSE, error |-> "", results |-> ids]
Thrown(msg)    == [threw |-> TRUE,  error |-> msg, results |-> <<>>]

\* `const { ..., maxResults = 3 } = input`: the default replaces undefined only
maxResultsOf(input) ==
    IF input.maxResults.t = "undefined" THEN Num(DefaultMaxResults) ELSE input.maxResults

SearchOutcome(found) ==
    IF found.threw THEN Thrown(found.error)
    ELSE Returned([i \in 1..Len(found.value) |-> found.value[i].section])

executeSearchSections(init, data, input) ==
    IF ~init THEN Thrown("Document parser not initialized")
    ELSE SearchOutcome(searchSections(init, data, input.query,
                                      MathMin(maxResultsOf(input), ResultCap)))

executeGetSectionById(init, data, input) ==
    IF ~init THEN Thrown("Document parser not initialized")
    ELSE IF /\ input.sectionId.t = "string"
            /\ Len(input.sectionId.w) = 1
            /\ input.sectionId.w[1] \in DOMAIN data.sections
         THEN Returned(<<input.sectionId.w[1]>>)
         ELSE Thrown("Section not found")

executeSearchByTopic(init, data, input) ==
    IF input.topic.t # "string" THEN Thrown("TypeError: topic.toLowerCase")
    ELSE SearchOutcome(searchSections(init, data,
                                      Str(JoinOr(ExpandKeywords(topicKeywords, input.topic), 1)),
                                      MathMin(maxResultsOf(input), ResultCap)))

executeGetBillOverview(init, data, input) ==
    IF ~init THEN Thrown("Document parser not initialized")
    ELSE Returned(<<>>)

executeSearchFinancialImpact(init, data, input) ==
    IF input.impactType.t # "string" THEN Thrown("TypeError: impactType.toLowerCase")
    ELSE SearchOutcome(searchSections(init, data,
                                      Str(JoinOr(ExpandKeywords(impactKeywords, input.impactType), 1)),
                                      MathMin(maxResultsOf(input), ResultCap)))

\* DocumentMCPServer.searchByTopic: `maxResults = 5`, no cap
searchByTopic(init, data, input) ==
    IF ~Truthy(input.topic) \/ input.topic.t # "string"
    THEN Thrown("topic parameter is required and must be a string")
    ELSE SearchOutcome(searchSections(init, data,
                                      Str(JoinOr(ExpandKeywords(topicKeywords, input.topic), 1)),
                                      IF input.maxResults.t = "undefined"
                                      THEN Num(McpDefaultMaxResults)
                                      ELSE input.maxResults))

\* the switch with a default branch that answers an empty result
RunToolUnknownAsEmpty(init, data, call) ==
    LET outcome ==
            CASE call.name = "search_sections"   -> executeSearchSections(init, data, call.input)
              [] call.name = "get_section_by_id" -> executeGetSectionById(init, data, call.input)
              [] call.name = "search_by_topic"   -> executeSearchByTopic(init, data, call.input)
              [] call.name = "get_bill_overview" -> executeGetBillOverview(init, data, call.input)
              [] call.name = "search_financial_impact"
                                                 -> executeSearchFinancialImpact(init, data, call.input)
              [] OTHER                           -> Returned(<<>>)
    IN  [isError |-> outcome.threw, error |-> outcome.error, results |-> outcome.results]

\* the switch of executeToolCalls with its try/catch: the content of the
\* tool_result, [isError, error, results], for one tool_use block
RunTool(init, data, call) ==
    LET outcome ==
            CASE call.name = "search_sections"   -> executeSearchSections(init, data, call.input)
              [] call.name = "get_section_by_id" -> executeGetSectionById(init, data, call.input)
              [] call.name = "search_by_topic"   -> executeSearchByTopic(init, data, call.input)
              [] call.name = "get_bill_overview" -> executeGetBillOverview(init, data, call.input)
              [] call.name = "search_financial_impact"
                                                 -> executeSearchFinancialImpact(init, data, call.input)
              [] OTHER                           -> Thrown("Unknown tool")
    IN  [isError |-> outcome.threw, error |-> outcome.error, results |-> outcome.results]

ToolResult(id, content) ==
    [type |-> "tool_result", tool_use_id |-> id, content |-> content]

IsToolUse(item) == item.type = "tool_use"
IsText(item)    == item.type = "text"

Input(q, sid, topic, impact, maxResults) ==
    [query |-> q, sectionId |-> sid, topic |-> topic,
     impactType |-> impact, maxResults |-> maxResults]

Call(name, input) == [name |-> name, input |-> input]

\* the tool invocations the model is let to make
Catalog ==
    << Call("search_by_topic",   Input(Undef, Undef, Str(<<"tax">>), Undef, Undef)),
       Call("delete_section",    Input(Undef, Str(<<"H1A">>), Undef, Undef, Undef)),
       Call("get_section_by_id", Input(Undef, Str(<<"nope">>), Undef, Undef, Undef)),
       Call("search_sections",   Input(Undef, Undef, Undef, Undef, Undef)),
       Call("search_sections",   Input(Str(<<"tax">>), Undef, Undef, Undef, Num(-1))),
       Call("get_bill_overview", Input(Undef, Undef, Undef, Undef, Undef)) >>

NoInput == Input(Undef, Undef, Undef, Undef, Undef)

\* what RunTool answers to the calls of the catalog once the document is
\* parsed, each call run once: pairs <<call, content>>
CatalogOutcomes ==
    {<<Catalog[k], RunTool(TRUE, buildDocumentStructure, Catalog[k])>>
        : k \in 1..Len(Catalog)}

\* RunTool, which depends on nothing but its arguments, read from
\* CatalogOutcomes where the call is there
RunToolOnce(init, data, call) ==
    IF /\ init
       /\ data = buildDocumentStructure
       /\ \E p \in CatalogOutcomes : p[1] = Call(call.name, call.input)
    THEN (CHOOSE p \in CatalogOutcomes : p[1] = Call(call.name, call.input))[2]
    ELSE RunTool(init, data, call)

\* the for loop of executeToolCalls: one tool_result per tool_use, in order
RunToolCalls(init, data, toolCalls) ==
    [i \in 1..Len(toolCalls) |->
        ToolResult(toolCalls[i].id, RunToolOnce(init, data, toolCalls[i]))]

\* the validation loop of executeToolCalls: a fallback result for every
\* tool_use id that is not among the ids of the results
AddFallbacks(toolUseIds, toolResults) ==
    LET toolResultIds == {toolResults[i].tool_use_id : i \in 1..Len(toolResults)}
        missing == SelectSeq(toolUseIds, LAMBDA id : id \notin toolResultIds)
    IN  toolResults \o
        [i \in 1..Len(missing) |->
            ToolResult(missing[i], [isError |-> TRUE, error |-> "Tool execution failed",
                                    results |-> <<>>])]

toolResultsFor(init, data, toolCalls) ==
    TheOne({ AddFallbacks([i \in 1..Len(toolCalls) |-> toolCalls[i].id], toolResults)
             : toolResults \in {RunToolCalls(init, data, toolCalls)} })

\* executeToolCalls with a catch block that only logs: a call that failed
\* leaves no tool_result, and nothing makes up for it
executeToolCallsDroppingFailures(init, data, content) ==
    SelectSeq(RunToolCalls(init, data, SelectSeq(content, IsToolUse)),
              LAMBDA r : ~r.content.isError)

\* executeToolCalls: the tool_result blocks answering a reply
executeToolCalls(init, data, content) ==
    TheOne({ toolResultsFor(init, data, toolCalls)
             : toolCalls \in {SelectSeq(content, IsToolUse)} })

-----------------------------------------------------------------------------
(* LLMService.parseResponse *)

(* The text of a reply is a sequence of lines [k, s, p, v]:                 *)
(*   "prose"   a line of words without braces that is not JSON;             *)
(*   "bullet"  a list marker (one of - * . or a digit), one blank, then s;  *)
(*   "blank"   a line of white space (s = "" is the empty line);            *)
(*   "object"  a line holding one balanced {...} block that is the JSON     *)
(*             text of the object Payloads[p], s being the words around it; *)
(*   "literal" a line that is the JSON text of the non-object value v;      *)
(*   "open"    a line with a { and no };  "close"  a line with a } and no {. *)

Line(k, s, p, v) == [k |-> k, s |-> s, p |-> p, v |-> v]

Prose(s)    == Line("prose", s, 0, Undef)
Bullet(s)   == Line("bullet", s, 0, Undef)
Blank(s)    == Line("blank", s, 0, Undef)
Object(s, p) == Line("object", s, p, Undef)
Literal(s, v) == Line("literal", s, 0, v)
Open(s)     == Line("open", s, 0, Undef)
Close(s)    == Line("close", s, 0, Undef)

Fields(a, sec, kp, imp, conf) ==
    [answer |-> a, sections |-> sec, keyPoints |-> kp,
     implications |-> imp, confidence |-> conf]

\* the object with every field present but those of the bit set m
\* (bit 1 answer, 2 sections, 4 keyPoints, 8 implications, 16 confidence)
Bit(m, i) == (m \div (2 ^ (i - 1))) % 2

PayloadWithout(m) ==
    Fields(IF Bit(m, 1) = 1 THEN Undef ELSE Str(<<"x">>),
           IF Bit(m, 2) = 1 THEN Undef ELSE Arr(<<"S1">>),
           IF Bit(m, 3) = 1 THEN Undef ELSE Arr(<<"p1">>),
           IF Bit(m, 4) = 1 THEN Undef ELSE Str(<<"i">>),
           IF Bit(m, 5) = 1 THEN Undef ELSE Str(<<"high">>))

\* the objects a reply can carry: five hand-picked ones, then one for every
\* set of absent fields
Payloads ==
    << Fields(Str(<<"x">>), Arr(<<"S1">>), Arr(<<"p1">>), Str(<<"i">>), Str(<<"high">>)),
       Fields(Str(<<"y">>), Arr(<<"S2">>), Arr(<<"p2">>), Str(<<"j">>), Undef),
       Fields(Undef, Arr(<<"S1">>), Undef, Undef, Str(<<"low">>)),
       Fields(Str(<<"z">>), Arr(<<>>), Arr(<<>>), Str(<<"k">>), Str(<<"certain">>)),
       Fields(Undef, Undef, Undef, Undef, Undef) >>
      \o [m \in 1..32 |-> PayloadWithout(m - 1)]

\* the string a line contributes to `content`
RawLine(line) == IF line.k = "bullet" THEN "- " \o line.s ELSE line.s

ContentOf(text) == Str([i \in 1..Len(text) |-> RawLine(text[i])])

HasOpen(line)  == line.k \in {"object", "open"}
HasClose(line) == line.k \in {"object", "close"}

\* content.match(/\{[\s\S]*\}/): from the first { to the last } after it;
\* the result is <<first line, last line>>, or <<>> for null
jsonMatch(text) ==
    LET opens  == {i \in 1..Len(text) : HasOpen(text[i])}
        closes == {i \in 1..Len(text) : HasClose(text[i])}
    IN  IF opens = {} THEN <<>>
        ELSE LET first == CHOOSE i \in opens : \A j \in opens : i <= j
                 after == {j \in closes : j > first \/ (j = first /\ text[j].k = "object")}
             IN  IF after = {} THEN <<>>
                 ELSE <<first, CHOOSE j \in after : \A l \in after : l <= j>>

\* JSON.parse: [ok, kind, fields, v]
ParsedObject(p) == [ok |-> TRUE, kind |-> "object", fields |-> Payloads[p], v |-> Undef]
ParsedValue(v)  == [ok |-> TRUE, kind |-> (IF v.t = "array" THEN "array"
                                           ELSE IF v.t = "null" THEN "null"
                                           ELSE "primitive"),
                    fields |-> Fields(Undef, Undef, Undef, Undef, Undef), v |-> v]
SyntaxError     == [ok |-> FALSE, kind |-> "none",
                    fields |-> Fields(Undef, Undef, Undef, Undef, Undef), v |-> Undef]

\* the inner try block: JSON.parse(jsonMatch[0]) or JSON.parse(content)
tryParseJson(text) ==
    LET m == jsonMatch(text)
        nonBlank == SelectSeq(text, LAMBDA line : line.k # "blank")
    IN  IF m # <<>>
        THEN IF m[1] = m[2] THEN ParsedObject(text[m[1]].p) ELSE SyntaxError
        ELSE IF Len(nonBlank) = 1 /\ nonBlank[1].k = "literal"
             THEN ParsedValue(nonBlank[1].v)
             ELSE SyntaxError

IsBullet(line) == line.k = "bullet"
NotBullet(line) == line.k # "bullet"

\* the catch (jsonError) block: the structured response made from the text
fallbackContent(text) ==
    LET lines        == SelectSeq(text, LAMBDA line : line.k # "blank")
        bulletPoints == SelectSeq(lines, IsBullet)
        keyPoints    == [i \in 1..Len(bulletPoints) |-> bulletPoints[i].s]
        rest         == SelectSeq(lines, NotBullet)
        answer       == IF bulletPoints # <<>>
                        THEN Str([i \in 1..Len(rest) |-> RawLine(rest[i])])
                        ELSE ContentOf(text)
    IN  Fields(IF Truthy(answer) THEN answer ELSE ContentOf(text),
               Arr(<<>>),
               Arr(Slice0(keyPoints, Num(MaxKeyPoints))),
               Str(<<"Based on the analysis provided above.">>),
               Str(<<"medium">>))

\* the "Validate required fields" block: the defaults are filled in only
\* when one of answer, sections, keyPoints, implications is falsy
fillDefaults(f, text) ==
    IF Truthy(f.answer) /\ Truthy(f.sections) /\ Truthy(f.keyPoints) /\ Truthy(f.implications)
    THEN f
    ELSE Fields(IF Truthy(f.answer) THEN f.answer ELSE ContentOf(text),
                IF Truthy(f.sections) THEN f.sections ELSE Arr(<<>>),
                IF Truthy(f.keyPoints) THEN f.keyPoints ELSE Arr(<<>>),
                IF Truthy(f.implications) THEN f.implications
                ELSE Str(<<"See full response for implications">>),
                IF Truthy(f.confidence) THEN f.confidence ELSE Str(<<"medium">>))

ParseFailure == [threw |-> TRUE, error |-> "Failed to parse Claude response",
                 value |-> Fields(Undef, Undef, Undef, Undef, Undef)]

\* [threw, error, value]: value holds the five fields of the parsed response
parseResponse(content) ==
    LET texts == SelectSeq(content, IsText)
    IN  IF content = <<>> \/ texts = <<>> THEN ParseFailure
        ELSE LET text   == texts[1].text
                 parsed == tryParseJson(text)
             IN  IF ~parsed.ok
                 THEN [threw |-> FALSE, error |-> "",
                       value |-> fillDefaults(fallbackContent(text), text)]
                 ELSE IF parsed.kind \in {"null", "primitive"}
                      \* parsedContent[field] of null, and the assignment of
                      \* a property to a primitive in strict code, throw
                      THEN ParseFailure
                      ELSE [threw |-> FALSE, error |-> "",
                            value |-> fillDefaults(parsed.fields, text)]

\* QueryProcessor.formatResponse
formatResponse(llmResponse, originalQuery) ==
    [success      |-> TRUE,
     answer       |-> llmResponse.answer,
     sections     |-> IF Truthy(llmResponse.sections) THEN llmResponse.sections ELSE Arr(<<>>),
     keyPoints    |-> IF Truthy(llmResponse.keyPoints) THEN llmResponse.keyPoints ELSE Arr(<<>>),
     implications |-> IF Truthy(llmResponse.implications) THEN llmResponse.implications ELSE Str(<<>>),
     confidence   |-> IF Truthy(llmResponse.confidence) THEN llmResponse.confidence
                      ELSE Str(<<"medium">>),
     query        |-> originalQuery,
     relevantSections |-> Arr(<<>>)]

\* the catch block of processQuery
errorResponse(message, originalQuery) ==
    [success |-> FALSE,
     error   |-> [message |-> message, type |-> "processing_error"],
     query   |-> originalQuery]

-----------------------------------------------------------------------------
(* The replies of the model API *)

TextBlock(text) ==
    [type |-> "text", text |-> text, id |-> 0, name |-> "", input |-> NoInput]

ToolUse(id, call) ==
    [type |-> "tool_use", text |-> <<>>, id |-> id, name |-> call.name, input |-> call.input]

\* a reply with len tool_use blocks, the calls start, start + 1, ... of the
\* catalog; the replies that do not start at 1 open with a text block
ToolReply(base, start, len) ==
    (IF start = 1 THEN <<>> ELSE <<TextBlock(<<Prose("Let me look that up.")>>)>>)
      \o [j \in 1..len |->
            ToolUse(base + j, Catalog[((start + j - 2) % Len(Catalog)) + 1])]

\* replies with 1 .. MaxToolCalls calls from the head of the catalog, and one
\* with MaxToolCalls calls from its second half
ToolReplies(base) ==
    {ToolReply(base, 1, len) : len \in 1..MaxToolCalls}
        \cup {ToolReply(base, 4, MaxToolCalls)}

\* the texts of the final replies: a JSON object, JSON that is no object,
\* broken JSON, plain prose
FinalTexts ==
    { <<Object("Here is info:", 1)>>,
      <<Literal("null", Null)>>,
      <<Literal("42", Num(42))>>,
      <<Open("{ answer: ")>>,
      <<Prose("Summary"), Bullet("point one"), Blank(""), Bullet("point two")>> }

FinalReplies == {<<TextBlock(text)>> : text \in FinalTexts} \cup {<<>>}

\* the model emits tool_use blocks only when the request offers tools
ModelReplies(request, base) ==
    FinalReplies \cup (IF request.tools # {} THEN ToolReplies(base) ELSE {})

\* the ways axios.post fails
ApiFailures == {"rate_limit_error", "api_error", "network", "timeout"}

\* the catch block without its rate-limit branch
apiErrorMessageWithoutRateLimit(how) ==
    CASE how \in {"rate_limit_error", "api_error"} -> "Claude API error"
      [] OTHER -> "Network error connecting to Claude API"

\* the catch block of makeApiCall: the message of the Error it throws
apiErrorMessage(how) ==
    CASE how = "rate_limit_error" ->
            "Service temporarily busy due to rate limits. Please try again in a moment."
      [] how = "api_error" -> "Claude API error"
      [] OTHER -> "Network error connecting to Claude API"

HasToolUse(content) == \E i \in 1..Len(content) : content[i].type = "tool_use"

Message(role, content) == [role |-> role, content |-> content]

\* the requests of the tool loop posted without `config`
RequestWithoutConfigInLoop(messages, kind) ==
    [messages |-> messages, tools |-> PayloadTools,
     timeout |-> IF kind = "initial" THEN ApiTimeout ELSE 0, kind |-> kind]

\* `payload` and `config` of makeApiCall with the given messages
Request(messages, kind) ==
    [messages |-> messages, tools |-> PayloadTools, timeout |-> ApiTimeout, kind |-> kind]

ForcePrompt == <<TextBlock(<<Prose("Based on all the information gathered from the tools above, please provide your final JSON response")>>)>>

Queries == {Str(<<"how", "will", "this", "affect", "my", "taxes">>), Str(<<>>)}

-----------------------------------------------------------------------------
(* The state machine *)

\* CacheService.constructor: an empty NodeCache, both counters 0
NewCache == [entries |-> <<>>, hitCount |-> 0, missCount |-> 0]

\* the page after App and QueryInterface are constructed: nothing loading,
\* the input empty, the submit button disabled, no request in flight
NewClient == [isLoading |-> FALSE, input |-> "", disabled |-> TRUE,
              inFlight |-> <<>>, modal |-> FALSE, lastFailedAction |-> ""]

Init ==
    /\ isInitialized = FALSE
    /\ documentData = NoDocument
    /\ pc = "idle"
    /\ query = Undef
    /\ conversationHistory = <<>>
    /\ currentResponse = <<>>
    /\ iterationCount = 0
    /\ requests = <<>>
    /\ toolRuns = <<>>
    /\ failure = "none"
    /\ result = <<>>
    /\ args = <<>>
    /\ cache = NewCache
    /\ client = NewClient

\* DocumentParser.initialize, the document being readable
initialize ==
    /\ ~isInitialized
    /\ pc = "idle"
    /\ documentData' = buildDocumentStructure
    /\ isInitialized' = TRUE
    /\ UNCHANGED <<args, cache, client, pc, query, conversationHistory, currentResponse,
                   iterationCount, requests, toolRuns, failure, result>>

\* processQuery up to the first axios.post of makeApiCall
processQuery(q) ==
    /\ pc = "idle"
    /\ query' = q
    /\ IF q.w = <<>>
       THEN /\ result' = errorResponse("Query is required and must be a non-empty string", q)
            /\ pc' = "done"
            /\ UNCHANGED requests
       ELSE /\ requests' = <<Request(<<Message("user", <<TextBlock(<<Prose("prompt")>>)>>)>>,
                                     "initial")>>
            /\ pc' = "awaitInitial"
            /\ UNCHANGED result
    /\ UNCHANGED <<args, cache, client, isInitialized, documentData, conversationHistory,
                   currentResponse, iterationCount, toolRuns, failure>>

\* queryDocument after makeApiCall returned `response`, and the rest of
\* processQuery: parseResponse, formatResponse, the return value
Finish(content) ==
    LET parsed == parseResponse(content)
    IN  /\ result' = IF parsed.threw THEN errorResponse(parsed.error, query)
                     ELSE formatResponse(parsed.value, query)
        /\ pc' = "done"

\* makeApiCall: the first reply arrives
InitialReply(content) ==
    /\ pc = "awaitInitial"
    /\ currentResponse' = content
    /\ IF HasToolUse(content)
       THEN /\ conversationHistory' = requests[1].messages
            /\ iterationCount' = 0
            /\ pc' = "loop"
            /\ UNCHANGED result
       ELSE /\ Finish(content)
            /\ UNCHANGED <<conversationHistory, iterationCount>>
    /\ UNCHANGED <<args, cache, client, isInitialized, documentData, query, requests, toolRuns, failure>>

\* the loop condition with <= for <
LoopConditionOffByOne ==
    HasToolUse(currentResponse) /\ iterationCount <= maxIterations

\* the loop condition without the iteration budget
LoopConditionWithoutBudget ==
    HasToolUse(currentResponse)

LoopCondition ==
    HasToolUse(currentResponse) /\ iterationCount < maxIterations

\* one pass through the body of the while loop, up to its axios.post
ToolRound ==
    /\ pc = "loop"
    /\ LoopCondition
    /\ LET toolResults == executeToolCalls(isInitialized, documentData, currentResponse)
           history     == conversationHistory
                            \o <<Message("assistant", currentResponse),
                                 Message("user", toolResults)>>
       IN  /\ conversationHistory' = history
           /\ toolRuns' = Append(toolRuns, toolResults)
           /\ requests' = Append(requests, Request(history, "loop"))
    /\ pc' = "awaitLoop"
    /\ UNCHANGED <<args, cache, client, isInitialized, documentData, query, currentResponse,
                   iterationCount, failure, result>>

\* the reply to the request of the loop arrives
LoopReply(content) ==
    /\ pc = "awaitLoop"
    /\ currentResponse' = content
    /\ iterationCount' = iterationCount + 1
    /\ pc' = "loop"
    /\ UNCHANGED <<args, cache, client, isInitialized, documentData, query, conversationHistory,
                   requests, toolRuns, failure, result>>

\* after the loop: the budget is used up and the reply still asks for tools
ForcedFinal ==
    /\ pc = "loop"
    /\ ~LoopCondition
    /\ iterationCount >= maxIterations /\ HasToolUse(currentResponse)
    /\ LET finalToolResults == executeToolCalls(isInitialized, documentData, currentResponse)
           history == conversationHistory
                        \o <<Message("assistant", currentResponse),
                             Message("user", finalToolResults),
                             Message("user", ForcePrompt)>>
       IN  /\ conversationHistory' = history
           /\ toolRuns' = Append(toolRuns, finalToolResults)
           /\ requests' = Append(requests, Request(history, "final"))
    /\ pc' = "awaitFinal"
    /\ UNCHANGED <<args, cache, client, isInitialized, documentData, query, currentResponse,
                   iterationCount, failure, result>>

\* after the loop: `return currentResponse`
ReturnCurrent ==
    /\ pc = "loop"
    /\ ~LoopCondition
    /\ ~(iterationCount >= maxIterations /\ HasToolUse(currentResponse))
    /\ Finish(currentResponse)
    /\ UNCHANGED <<args, cache, client, isInitialized, documentData, query, conversationHistory,
                   currentResponse, iterationCount, requests, toolRuns, failure>>

\* the reply to the forced final request arrives: `return finalResponse.data`
FinalReply(content) ==
    /\ pc = "awaitFinal"
    /\ currentResponse' = content
    /\ Finish(content)
    /\ UNCHANGED <<args, cache, client, isInitialized, documentData, query, conversationHistory,
                   iterationCount, requests, toolRuns, failure>>

\* an axios.post rejects: the catch blocks of makeApiCall and processQuery
ApiFailure(how) ==
    /\ pc \in {"awaitInitial", "awaitLoop", "awaitFinal"}
    /\ failure' = how
    /\ result' = errorResponse(apiErrorMessage(how), query)
    /\ pc' = "done"
    /\ UNCHANGED <<args, cache, client, isInitialized, documentData, query, conversationHistory,
                   currentResponse, iterationCount, requests, toolRuns>>

\* the handling of the next query starts from fresh per-query state
NextQuery ==
    /\ pc = "done"
    /\ pc' = "idle"
    /\ query' = Undef
    /\ conversationHistory' = <<>>
    /\ currentResponse' = <<>>
    /\ iterationCount' = 0
    /\ requests' = <<>>
    /\ toolRuns' = <<>>
    /\ failure' = "none"
    /\ result' = <<>>
    /\ UNCHANGED <<args, cache, client, isInitialized, documentData>>

\* what the model may answer to the request that is in flight; the ids of
\* its tool_use blocks are fresh
Replies ==
    IF requests = <<>> THEN {}
    ELSE ModelReplies(requests[Len(requests)], Len(requests) * 10)

Next ==
    \/ initialize
    \/ \E q \in Queries : processQuery(q)
    \/ \E content \in Replies : InitialReply(content)
    \/ ToolRound
    \/ \E content \in Replies : LoopReply(content)
    \/ ForcedFinal
    \/ ReturnCurrent
    \/ \E content \in Replies : FinalReply(content)
    \/ \E how \in ApiFailures : ApiFailure(how)
    \/ NextQuery

Spec == Init /\ [][Next]_vars

\* the steps of the handler between two awaits
Step == ToolRound \/ ForcedFinal \/ ReturnCurrent

\* the request in flight settles: axios.post rejects (an error, or the
\* timeout of `config`) or resolves with a reply
Settle ==
    \/ \E how \in ApiFailures : ApiFailure(how)
    \/ \E content \in Replies : InitialReply(content)
    \/ \E content \in Replies : LoopReply(content)
    \/ \E content \in Replies : FinalReply(content)

\* the handler runs on after every await, and every axios.post settles
FairSpec == Spec /\ WF_vars(Step) /\ WF_vars(Settle)

-----------------------------------------------------------------------------
(* The response normalizer on its own: queryDocument hands the reply of     *)
(* makeApiCall to parseResponse, processQuery the outcome to formatResponse *)

MaxBullets == 6

PointTable ==
    <<"point one", "point two", "point three", "point four", "point five",
      "point six", "point seven", "point eight", "point nine">>

\* a line of prose followed by n list items
BulletText(n) ==
    <<Prose("Summary")>> \o [i \in 1..n |-> Bullet(PointTable[i])]

\* the texts parseResponse is given
ParseTexts ==
    {<<Object("Here is info:", p)>> : p \in 1..Len(Payloads)}
      \cup {<<Object("First:", p), Object("Second:", q)>> : p, q \in 1..2}
      \cup {<<Object("Here is info:", 1), Close("(see above) }")>>,
             <<Object("Here is info:", 1), Prose("Hope this helps")>>,
             <<Prose("The answer:"), Object("", 2)>>}
      \cup {<<Literal("null", Null)>>, <<Literal("42", Num(42))>>,
             <<Literal("\"done\"", Str(<<"done">>))>>,
             <<Literal("[\"a\"]", Arr(<<"a">>))>>}
      \cup {BulletText(n) : n \in 0..MaxBullets}
      \cup {<<Open("{ answer: ")>>,
             <<Bullet("point one"), Blank(""), Bullet("point two")>>,
             <<Blank(" ")>>}

\* queryDocument: makeApiCall returned a reply with the text, parseResponse
\* runs; result is [threw, error, value]
ParseReply(text) ==
    /\ pc = "idle"
    /\ args' = text
    /\ currentResponse' = <<TextBlock(text)>>
    /\ result' = parseResponse(<<TextBlock(text)>>)
    /\ pc' = "parsed"
    /\ UNCHANGED <<cache, client, isInitialized, documentData, query, conversationHistory,
                   iterationCount, requests, toolRuns, failure>>

\* processQuery: formatResponse of what queryDocument returned, or the catch
FormatParsed ==
    /\ pc = "parsed"
    /\ result' = IF result.threw THEN errorResponse(result.error, query)
                 ELSE formatResponse(result.value, query)
    /\ pc' = "done"
    /\ UNCHANGED <<args, cache, client, isInitialized, documentData, query, conversationHistory,
                   currentResponse, iterationCount, requests, toolRuns, failure>>

ParseNext ==
    \/ \E text \in ParseTexts : ParseReply(text)
    \/ FormatParsed

ParseSpec == Init /\ [][ParseNext]_vars

-----------------------------------------------------------------------------
(* The retrieval engine on its own: searches of a snapshot that is built    *)

MaxDocSections == 6

\* the sections a document is made of: title and fullText (which holds the
\* words of the title, as extractAllTextRecursive collects them)
SectionKinds ==
    [farm    |-> [title |-> <<"farm">>, fullText |-> <<"farm", "subsidy", "program">>],
     tax     |-> [title |-> <<"tax", "relief">>,
                  fullText |-> <<"tax", "relief", "the", "tax", "credit">>],
     defense |-> [title |-> <<>>, fullText |-> <<"defense", "spending", "budget">>]]

\* the id attributes of the sections of a document, in document order
LetterIds(n) == [i \in 1..n |-> IdTable[i]]
NumberIds(n) == [i \in 1..n |-> IntegerKeys[10 - i]]

\* buildDocumentStructure for the document whose i-th section has the id
\* ids[i] and is of the kind kinds[i]
SnapshotOf(ids, kinds) ==
    LET sections == [id \in RangeOf(ids) |->
                        LET i == CHOOSE j \in 1..Len(ids) : ids[j] = id
                        IN  [id |-> id, title |-> Str(SectionKinds[kinds[i]].title),
                             fullText |-> Str(SectionKinds[kinds[i]].fullText),
                             level |-> 1]]
    IN  [sections |-> sections, searchIndex |-> buildSearchIndex(ids, sections)]

Snapshots ==
    {SnapshotOf(LetterIds(2), <<"farm", "defense">>)}
      \cup UNION {{SnapshotOf(ids, kinds) : ids \in {LetterIds(n), NumberIds(n)},
                                            kinds \in [1..n -> {"farm", "tax"}]}
                  : n \in 0..MaxDocSections}

SearchQueries ==
    {Undef, Str(<<>>), Str(<<"the", "of", "and">>),
     Str(<<"farm">>), Str(<<"farm", "farm">>), Str(<<"farm", "tax">>),
     Str(<<"credit", "tax", "farm">>), Str(<<"constructor">>),
     Str(JoinOr(ExpandKeywords(impactKeywords, Str(<<"tax_change">>)), 1))}

SearchLimits == {Undef, Num(5), Num(2), Num(0), Num(-1)}

TopicInputs ==
    {Input(Undef, Undef, Str(<<"tax">>), Undef, Num(5)),
     Input(Undef, Undef, Str(<<"tax">>), Undef, Undef),
     Input(Undef, Undef, Str(<<"farm">>), Undef, Num(5))}

\* the document is parsed: isInitialized is true, documentData is a snapshot
SearchInit ==
    /\ isInitialized = TRUE
    /\ documentData \in Snapshots
    /\ pc = "idle"
    /\ query = Undef
    /\ conversationHistory = <<>>
    /\ currentResponse = <<>>
    /\ iterationCount = 0
    /\ requests = <<>>
    /\ toolRuns = <<>>
    /\ failure = "none"
    /\ result = <<>>
    /\ args = <<>>
    /\ cache = NewCache
    /\ client = NewClient

\* documentParser.searchSections(q, limit); result is [threw, error, value]
Search(q, limit) ==
    /\ pc = "idle"
    /\ args' = [op |-> "searchSections", query |-> q, limit |-> limit]
    /\ result' = searchSections(isInitialized, documentData, q, limit)
    /\ pc' = "done"
    /\ UNCHANGED <<cache, client, isInitialized, documentData, query, conversationHistory,
                   currentResponse, iterationCount, requests, toolRuns, failure>>

\* DocumentMCPServer.searchByTopic(input); result is [threw, error, results]
McpSearchByTopic(input) ==
    /\ pc = "idle"
    /\ args' = [op |-> "searchByTopic", query |-> input.topic, limit |-> input.maxResults]
    /\ result' = searchByTopic(isInitialized, documentData, input)
    /\ pc' = "done"
    /\ UNCHANGED <<cache, client, isInitialized, documentData, query, conversationHistory,
                   currentResponse, iterationCount, requests, toolRuns, failure>>

\* LLMService.executeSearchByTopic(input); result is [threw, error, results]
ToolSearchByTopic(input) ==
    /\ pc = "idle"
    /\ args' = [op |-> "executeSearchByTopic", query |-> input.topic,
                limit |-> input.maxResults]
    /\ result' = executeSearchByTopic(isInitialized, documentData, input)
    /\ pc' = "done"
    /\ UNCHANGED <<cache, client, isInitialized, documentData, query, conversationHistory,
                   currentResponse, iterationCount, requests, toolRuns, failure>>

SearchNext ==
    \/ \E q \in SearchQueries, limit \in SearchLimits : Search(q, limit)
    \/ \E input \in TopicInputs : McpSearchByTopic(input)
    \/ \E input \in TopicInputs : ToolSearchByTopic(input)

SearchSpec == SearchInit /\ [][SearchNext]_vars

-----------------------------------------------------------------------------
(* Properties *)

ToolUses(message)    == SelectSeq(message.content, IsToolUse)
ToolResults(message) == SelectSeq(message.content, LAMBDA item : item.type = "tool_result")
ToolUseIdsOf(message)     == [i \in 1..Len(ToolUses(message)) |-> ToolUses(message)[i].id]
ToolResultIdsOf(message)  == [i \in 1..Len(ToolResults(message)) |-> ToolResults(message)[i].tool_use_id]

AssistantTurns(messages) ==
    {i \in 1..Len(messages) : messages[i].role = "assistant" /\ ToolUses(messages[i]) # <<>>}

Paired(messages, i) ==
    /\ i + 1 <= Len(messages)
    /\ messages[i + 1].role = "user"
    /\ Len(ToolResultIdsOf(messages[i + 1])) = Len(ToolUseIdsOf(messages[i]))
    /\ \A id \in RangeOf(ToolUseIdsOf(messages[i])) \cup RangeOf(ToolResultIdsOf(messages[i + 1])) :
          Count(ToolResultIdsOf(messages[i + 1]), id) = Count(ToolUseIdsOf(messages[i]), id)

RequestsOfKind(kind) == {i \in 1..Len(requests) : requests[i].kind = kind}

\* C1: in every request sent to the model, each assistant message with N >= 1
\* tool_use blocks is immediately followed by a user message with exactly N
\* tool_result blocks whose tool_use_id values correspond one to one to the
\* ids of the tool_use blocks, failed tool calls included.
C1_ToolResultsPairWithToolUses ==
    \A r \in 1..Len(requests) :
        \A i \in AssistantTurns(requests[r].messages) : Paired(requests[r].messages, i)

\* a request was sent whose history answers three tool calls, one of them failed
C1_Witness ==
    \E r \in 1..Len(requests) :
        \E i \in AssistantTurns(requests[r].messages) :
            /\ Len(ToolUses(requests[r].messages[i])) = 3
            /\ i + 1 <= Len(requests[r].messages)
            /\ \E k \in 1..Len(ToolResults(requests[r].messages[i + 1])) :
                  ToolResults(requests[r].messages[i + 1])[k].content.isError

\* the query ended, every request was answered, and every answer asked for a tool
EveryReplyRequestedATool ==
    /\ pc = "done"
    /\ requests # <<>>
    /\ failure = "none"
    /\ HasToolUse(currentResponse)

\* C2 (as stated): with a model that requests a tool in every reply, tool
\* calls are executed in exactly maxIterations rounds, then exactly one forced
\* final request is sent, and the query terminates.
C2_Original ==
    EveryReplyRequestedATool =>
        /\ Len(toolRuns) = maxIterations
        /\ Cardinality(RequestsOfKind("final")) = 1

\* C2 (amended): with a model that requests a tool in every reply, the loop
\* makes exactly maxIterations rounds, each executing the tool calls and
\* sending a request; the tool calls of the last reply are then executed once
\* more (maxIterations + 1 executions in all), exactly one forced final request
\* is sent as the last request, and the query terminates.
C2_BudgetExhaustion ==
    EveryReplyRequestedATool =>
        /\ Cardinality(RequestsOfKind("loop")) = maxIterations
        /\ Len(toolRuns) = maxIterations + 1
        /\ RequestsOfKind("final") = {Len(requests)}
        /\ Len(requests) = maxIterations + 2

C2_Witness ==
    EveryReplyRequestedATool /\ iterationCount = maxIterations

\* C3: the forced final request offers no tool definitions, so the reply
\* returned for a budget-exhausted conversation never contains a tool_use block.
C3_ForcedFinalOffersNoTools ==
    /\ \A r \in RequestsOfKind("final") : requests[r].tools = {}
    /\ (pc = "done" /\ failure = "none" /\ RequestsOfKind("final") # {})
          => ~HasToolUse(currentResponse)

RequestBound ==
    /\ Cardinality(RequestsOfKind("initial")) <= 1
    /\ Cardinality(RequestsOfKind("loop")) <= maxIterations
    /\ Cardinality(RequestsOfKind("final")) <= 1
    /\ \A r \in RequestsOfKind("final") : r = Len(requests)
    /\ Len(requests) <= maxIterations + 2
    /\ iterationCount <= maxIterations

\* C4: whatever the model does, the handling of a query terminates, and it
\* makes at most maxIterations round-trips in the tool loop followed by at most
\* one forced final request: never more than maxIterations + 2 requests.
C4_BoundedAndTerminates ==
    /\ []RequestBound
    /\ (pc \in {"awaitInitial", "loop", "awaitLoop", "awaitFinal"}) ~> (pc = "done")

C4_Witness ==
    pc = "done" /\ Len(requests) = maxIterations + 2

RateLimitMessage ==
    "Service temporarily busy due to rate limits. Please try again in a moment."

\* C5: a rate_limit_error on any request of a query fails the query with the
\* rate-limit message, which differs from the messages of the other failures,
\* and no further request is sent for that query.
C5_RateLimitIsTerminalAndDistinct ==
    [][ /\ (failure' = "rate_limit_error" /\ failure = "none") =>
              /\ pc' = "done"
              /\ result'.success = FALSE
              /\ result'.error.message = RateLimitMessage
              /\ result'.error.message \notin
                    {apiErrorMessage(how) : how \in ApiFailures \ {"rate_limit_error"}}
              /\ requests' = requests
        /\ (failure = "rate_limit_error") => (requests' = requests \/ requests' = <<>>)
      ]_vars

\* the rate limit hit a request of the tool loop
C5_Witness ==
    failure = "rate_limit_error" /\ Len(requests) > 1 /\ pc = "done"

\* C6: every request carries a timeout; a timeout or network failure of any
\* request ends the query: no further request, and processQuery returns
\* success = false with an error type and message and without the fields
\* answer, sections and keyPoints.
C6_TransportFailureIsTerminal ==
    [][ /\ \A r \in 1..Len(requests') : requests'[r].timeout > 0
        /\ (failure' \in {"network", "timeout"} /\ failure = "none") =>
              /\ pc' = "done"
              /\ result'.success = FALSE
              /\ result'.error.message = "Network error connecting to Claude API"
              /\ result'.error.type = "processing_error"
              /\ DOMAIN result' \cap {"answer", "sections", "keyPoints"} = {}
              /\ requests' = requests
        /\ (failure \in {"network", "timeout"}) => (requests' = requests \/ requests' = <<>>)
      ]_vars

\* the forced final request timed out
C6_Witness ==
    failure = "timeout" /\ pc = "done" /\ RequestsOfKind("final") # {}

UnknownToolUses(message) ==
    {k \in 1..Len(ToolUses(message)) : ToolUses(message)[k].name \notin ToolNames}

\* C7: when a reply requests a tool that is not one of the five tools, the
\* tool_result of that invocation carries an error payload, the other tool
\* calls of the reply are still executed and answered, and the conversation
\* goes on to the next request instead of failing the query.
C7_UnknownToolIsReportedInTheConversation ==
    \A i \in AssistantTurns(conversationHistory) :
        UnknownToolUses(conversationHistory[i]) # {} =>
            /\ i + 1 <= Len(conversationHistory)
            /\ \A k \in 1..Len(ToolUses(conversationHistory[i])) :
                  LET use == ToolUses(conversationHistory[i])[k]
                  IN  \E n \in 1..Len(ToolResults(conversationHistory[i + 1])) :
                         LET res == ToolResults(conversationHistory[i + 1])[n]
                         IN  /\ res.tool_use_id = use.id
                             /\ IF use.name \in ToolNames
                                THEN res.content = RunTool(isInitialized, documentData, use)
                                ELSE res.content.isError /\ res.content.error = "Unknown tool"
            /\ \E r \in 1..Len(requests) :
                  /\ Len(requests[r].messages) >= i + 1
                  /\ SubSeq(requests[r].messages, 1, i + 1) = SubSeq(conversationHistory, 1, i + 1)
            /\ (pc = "done" /\ failure = "none" /\ ~HasToolUse(currentResponse)
                  /\ \E t \in 1..Len(currentResponse) :
                        currentResponse[t].type = "text"
                        /\ currentResponse[t].text = <<Object("Here is info:", 1)>>)
                  => result.success

\* an unknown tool was requested next to a known one, and the query was answered
C7_Witness ==
    /\ pc = "done" /\ result.success
    /\ \E i \in AssistantTurns(conversationHistory) :
          /\ UnknownToolUses(conversationHistory[i]) # {}
          /\ Len(ToolUses(conversationHistory[i])) > 1

\* the input of a call does not satisfy the input_schema of its tool
IsStringOf(v, allowed) == v.t = "string" /\ Len(v.w) = 1 /\ v.w[1] \in allowed
ViolatesSchema(call) ==
    \/ call.input.maxResults.t \notin {"undefined", "number"}
    \/ call.name = "search_sections"   /\ call.input.query.t # "string"
    \/ call.name = "get_section_by_id" /\ call.input.sectionId.t # "string"
    \/ call.name = "search_by_topic"   /\ ~IsStringOf(call.input.topic, DOMAIN topicKeywords)
    \/ call.name = "search_financial_impact"
          /\ ~IsStringOf(call.input.impactType, DOMAIN impactKeywords)

\* C8: a known tool invoked with arguments that violate its input schema gets
\* a tool_result with an error payload, and the conversation is not aborted.
C8_InvalidArgumentsAreReported ==
    \A i \in AssistantTurns(conversationHistory) :
        \A k \in 1..Len(ToolUses(conversationHistory[i])) :
            LET use == ToolUses(conversationHistory[i])[k]
            IN  (use.name \in ToolNames /\ ViolatesSchema(use)) =>
                   \E n \in 1..Len(ToolResults(conversationHistory[i + 1])) :
                       LET res == ToolResults(conversationHistory[i + 1])[n]
                       IN  res.tool_use_id = use.id /\ res.content.isError

SearchTools == {"search_sections", "search_by_topic", "search_financial_impact"}

\* C9: whatever maxResults a tool invocation supplies, the three search tools
\* return at most 3 sections.
C9_SearchToolsReturnAtMostTheCap ==
    \A i \in AssistantTurns(conversationHistory) :
        \A k \in 1..Len(ToolUses(conversationHistory[i])) :
            LET use == ToolUses(conversationHistory[i])[k]
            IN  use.name \in SearchTools =>
                   \A n \in 1..Len(ToolResults(conversationHistory[i + 1])) :
                       LET res == ToolResults(conversationHistory[i + 1])[n]
                       IN  res.tool_use_id = use.id => Len(res.content.results) <= ResultCap

\* C10: for every final reply that contains a text block, whatever the text
\* is, the response normalizer returns a structured answer and never raises.
C10_NormalizerNeverRaises ==
    (pc = "done" /\ requests # <<>> /\ failure = "none"
        /\ \E t \in 1..Len(currentResponse) : currentResponse[t].type = "text")
      => /\ result.success
         /\ {"answer", "sections", "keyPoints", "implications", "confidence"}
               \subseteq DOMAIN result

-----------------------------------------------------------------------------
(* The indexer on its own: DocumentParser.buildDocumentStructure applied to
   a parsed document.  xml2js (explicitArray: true) gives every element as an
   object whose child elements are the items of arrays and whose attributes
   are the object `$`; a tree is a sequence of nodes, tree[n].parent being
   the node that encloses n (0 for the root, which is node 1), tree[n].id
   the id attribute of the element ("" when it has none), tree[n].header the
   words of its header and tree[n].text those of its text. *)

MaxNodes == 4

NodeIds == {"", IdTable[1], IdTable[2]}

RECURSIVE ParentChoices(_)
ParentChoices(n) ==
    IF n = 0 THEN {<<>>}
    ELSE {Append(ps, p) : ps \in ParentChoices(n - 1), p \in (IF n = 1 THEN {0} ELSE 1..(n - 1))}

\* the text of the last element of a document
LeafTexts == {<<"farm", "subsidy", "program">>, <<"the", "general", "constructor">>}

DocumentTrees ==
    UNION {{[n \in 1..k |-> [parent |-> ps[n], id |-> ids[n], header |-> SectionTitle(n),
                             text |-> IF n = k THEN leaf ELSE <<"the", "tax", "rate">>]] :
                ps \in ParentChoices(k), ids \in [1..k -> NodeIds], leaf \in LeafTexts}
           : k \in 1..MaxNodes}

\* the items of the arrays of obj, in document order
Children(tree, n) ==
    SelectSeq([i \in 1..Len(tree) |-> i], LAMBDA c : tree[c].parent = n)

\* extractAllTextRecursive(obj): the text of the element and of everything
\* below it, in document order
RECURSIVE extractAllTextRecursive(_, _)
extractAllTextRecursive(tree, n) ==
    LET items == Children(tree, n)
        below[i \in 0..Len(items)] ==
            IF i = 0 THEN <<>>
            ELSE below[i - 1] \o extractAllTextRecursive(tree, items[i])
    IN  tree[n].header \o tree[n].text \o below[Len(items)]

\* extractSectionDataSimple with a first line `if (!level) return null`
extractSectionDataSimpleBelowRootOnly(obj, parentId, level) ==
    IF obj.id = "" \/ level = 0
    THEN Null
    ELSE [id |-> obj.id, title |-> Str(obj.header), fullText |-> Str(obj.allText),
          level |-> level, parentId |-> parentId, children |-> <<>>]

\* the section of an element: null without an id, otherwise a record with
\* the id and the level and parentId that were passed in
extractSectionDataSimple(obj, parentId, level) ==
    IF obj.id = ""
    THEN Null
    ELSE [id |-> obj.id, title |-> Str(obj.header), fullText |-> Str(obj.allText),
          level |-> level, parentId |-> parentId, children |-> <<>>]

\* processSectionsSimple(obj, sections, parentId, level): the sections that
\* are assigned to the section map, in the order of the assignments.  An
\* item with an id is processed with (obj.$ && obj.$.id) || parentId and
\* level + 1, an item without an id with parentId and level as passed in.
\* (The attribute object `$` is processed too; it holds strings only.)
RECURSIVE processSectionsSimple(_, _, _, _)
processSectionsSimple(tree, n, parentId, level) ==
    LET obj     == [id |-> tree[n].id, header |-> tree[n].header,
                    allText |-> extractAllTextRecursive(tree, n)]
        section == extractSectionDataSimple(obj, parentId, level)
        own     == IF obj.id # "" /\ section # Null THEN <<section>> ELSE <<>>
        items   == Children(tree, n)
        below   == IF obj.id # "" THEN Str(<<obj.id>>) ELSE parentId
        visit[i \in 0..Len(items)] ==
            IF i = 0 THEN own
            ELSE visit[i - 1]
                   \o (IF tree[items[i]].id # ""
                       THEN processSectionsSimple(tree, items[i], below, level + 1)
                       ELSE processSectionsSimple(tree, items[i], parentId, level))
    IN  visit[Len(items)]

\* sections[section.id] = section, a later assignment replacing an earlier one
StoredSections(stored) ==
    [id \in {stored[i].id : i \in 1..Len(stored)} |->
        stored[CHOOSE i \in 1..Len(stored) :
                  stored[i].id = id /\ \A j \in (i + 1)..Len(stored) : stored[j].id # id]]

\* buildSearchIndex throws a TypeError at a keyword that names a property
\* every object inherits: `!searchIndex[keyword]` is false for it, and the
\* inherited value has no method `includes`
buildSearchIndexThrows(sections) ==
    \E id \in DOMAIN sections : IndexedWords(sections[id]) \cap PrototypeKeys # {}

\* buildDocumentStructure(parsedXml); the result is [threw, value]
buildDocumentStructureOf(tree) ==
    LET stored   == processSectionsSimple(tree, 1, Null, 0)
        sections == StoredSections(stored)
        created  == FirstSeen([i \in 1..Len(stored) |-> stored[i].id], 1)
    IN  IF buildSearchIndexThrows(sections)
        THEN [threw |-> TRUE, value |-> NoDocument]
        ELSE [threw |-> FALSE,
              value |-> [sections |-> sections,
                         searchIndex |-> buildSearchIndex(created, sections)]]

IndexInit ==
    /\ isInitialized = FALSE
    /\ documentData = NoDocument
    /\ pc = "idle"
    /\ query = Undef
    /\ conversationHistory = <<>>
    /\ currentResponse = <<>>
    /\ iterationCount = 0
    /\ requests = <<>>
    /\ toolRuns = <<>>
    /\ failure = "none"
    /\ result = <<>>
    /\ args \in DocumentTrees
    /\ cache = NewCache
    /\ client = NewClient

\* DocumentParser.initialize, parsedXml being the tree in args: when
\* buildDocumentStructure throws, neither field is assigned and the error is
\* thrown on
BuildIndex ==
    /\ ~isInitialized
    /\ pc = "idle"
    /\ LET built == buildDocumentStructureOf(args)
       IN  IF built.threw
           THEN /\ pc' = "failed"
                /\ failure' = "TypeError"
                /\ UNCHANGED <<cache, client, isInitialized, documentData>>
           ELSE /\ documentData' = built.value
                /\ isInitialized' = TRUE
                /\ UNCHANGED <<pc, failure>>
    /\ UNCHANGED <<args, cache, client, query, conversationHistory, currentResponse,
                   iterationCount, requests, toolRuns, result>>

IndexNext == BuildIndex

IndexSpec == IndexInit /\ [][IndexNext]_vars

-----------------------------------------------------------------------------
(* The readers of the snapshot: the getters of DocumentParser, the tools, the
   section route and the MCP lookup, called at any time between the queries,
   before and after initialize (ServeSpec) *)

NotInitialized == "Document parser not initialized"

\* the getters answer [threw, error, value]
getDocumentData(init, data) ==
    IF ~init THEN [threw |-> TRUE, error |-> NotInitialized, value |-> Undef]
    ELSE [threw |-> FALSE, error |-> "", value |-> data]

\* getSection without the test of isInitialized: documentData is null
getSectionUnguarded(init, data, id) ==
    IF ~init THEN [threw |-> TRUE, error |-> "TypeError: documentData is null", value |-> Undef]
    ELSE [threw |-> FALSE, error |-> "",
          value |-> IF Len(id.w) = 1 /\ id.w[1] \in DOMAIN data.sections
                    THEN data.sections[id.w[1]] ELSE Undef]

\* this.documentData.sections[sectionId]: undefined for a missing id
getSection(init, data, id) ==
    IF ~init THEN [threw |-> TRUE, error |-> NotInitialized, value |-> Undef]
    ELSE [threw |-> FALSE, error |-> "",
          value |-> IF Len(id.w) = 1 /\ id.w[1] \in DOMAIN data.sections
                    THEN data.sections[id.w[1]] ELSE Undef]

getDocumentStructure(init, data) ==
    IF ~init THEN [threw |-> TRUE, error |-> NotInitialized, value |-> Undef]
    ELSE [threw |-> FALSE, error |-> "",
          value |-> [hierarchy |-> <<>>, toc |-> <<>>, metadata |-> <<>>]]

\* DocumentMCPServer.getSectionById, which throws its errors on
mcpGetSectionById(init, data, input) ==
    IF ~Truthy(input.sectionId) \/ input.sectionId.t # "string"
    THEN Thrown("sectionId parameter is required and must be a string")
    ELSE IF ~init THEN Thrown(NotInitialized)
    ELSE IF Len(input.sectionId.w) = 1 /\ input.sectionId.w[1] \in DOMAIN data.sections
    THEN Returned(<<input.sectionId.w[1]>>)
    ELSE Thrown("Section not found")

\* the terms that are not a regular expression: new RegExp throws
BrokenPatterns == {"("}

\* highlightMatches(content, terms) for one term: every word that is the
\* term, whatever its case, is wrapped in <mark>
highlightMatches(content, term) ==
    Str([i \in 1..Len(content.w) |->
            IF toLowerCase(content.w[i]) = toLowerCase(term)
            THEN "<mark>" \o content.w[i] \o "</mark>"
            ELSE content.w[i]])

\* the route with `let response = section` in the place of the copy: the
\* highlighted texts are written to the section of the snapshot
sectionRouteWithoutCopy(init, data, id, highlight) ==
    LET found == getSection(init, data, id)
        term  == highlight.w[1]
    IN  IF ~Truthy(id) THEN [status |-> 400, section |-> Undef, data |-> data]
        ELSE IF found.threw THEN [status |-> 500, section |-> Undef, data |-> data]
        ELSE IF found.value = Undef THEN [status |-> 404, section |-> Undef, data |-> data]
        ELSE IF ~Truthy(highlight) THEN [status |-> 200, section |-> found.value, data |-> data]
        ELSE IF term \in BrokenPatterns THEN [status |-> 500, section |-> Undef, data |-> data]
        ELSE LET response == [found.value EXCEPT
                                 !.title = highlightMatches(found.value.title, term),
                                 !.fullText = highlightMatches(found.value.fullText, term)]
             IN  [status |-> 200, section |-> response,
                  data |-> [data EXCEPT !.sections[id.w[1]] = response]]

\* GET /section/:id with ?highlight=term: the status, the section of the
\* body, and the snapshot as the handler leaves it; the texts are highlighted
\* in `response`, a copy of the section.  (childSections is never set:
\* section.children is empty.)
sectionRoute(init, data, id, highlight) ==
    LET found == getSection(init, data, id)
        term  == highlight.w[1]
    IN  IF ~Truthy(id) THEN [status |-> 400, section |-> Undef, data |-> data]
        ELSE IF found.threw THEN [status |-> 500, section |-> Undef, data |-> data]
        ELSE IF found.value = Undef THEN [status |-> 404, section |-> Undef, data |-> data]
        ELSE IF ~Truthy(highlight) THEN [status |-> 200, section |-> found.value, data |-> data]
        ELSE IF term \in BrokenPatterns THEN [status |-> 500, section |-> Undef, data |-> data]
        ELSE LET response == [found.value EXCEPT
                                 !.title = highlightMatches(found.value.title, term),
                                 !.fullText = highlightMatches(found.value.fullText, term)]
             IN  [status |-> 200, section |-> response, data |-> data]

LookupIds == {Str(<<IdTable[1]>>), Str(<<"nope">>)}

HighlightTerms == {Undef, Str(<<"tax">>), Str(<<"(">>)}

ServeQueries == {Undef, Str(<<"tax">>), Str(<<"farm", "tax">>)}

ServeLimits == {Undef, Num(2)}

\* a reader has returned or thrown: the call is kept in args, what it
\* answered in result
Served(call, outcome) ==
    /\ pc = "idle"
    /\ pc' = "served"
    /\ args' = call
    /\ result' = outcome
    /\ UNCHANGED <<cache, client, isInitialized, query, conversationHistory, currentResponse,
                   iterationCount, requests, toolRuns, failure>>

\* readFile or parseStringPromise rejects: initialize throws the error on and
\* assigns nothing
InitializeFails ==
    /\ ~isInitialized
    /\ pc = "idle"
    /\ failure = "none"
    /\ failure' = "ParseError"
    /\ UNCHANGED <<args, cache, client, isInitialized, documentData, pc, query, conversationHistory,
                   currentResponse, iterationCount, requests, toolRuns, result>>

GetDocumentData ==
    /\ Served([op |-> "getDocumentData"], getDocumentData(isInitialized, documentData))
    /\ UNCHANGED documentData

GetSection(id) ==
    /\ Served([op |-> "getSection", id |-> id], getSection(isInitialized, documentData, id))
    /\ UNCHANGED documentData

GetDocumentStructure ==
    /\ Served([op |-> "getDocumentStructure"],
              getDocumentStructure(isInitialized, documentData))
    /\ UNCHANGED documentData

SearchSections(q, limit) ==
    /\ Served([op |-> "searchSections", query |-> q, limit |-> limit],
              searchSections(isInitialized, documentData, q, limit))
    /\ UNCHANGED documentData

\* one of the five tools (or an unknown one) run by executeToolCalls
ExecuteTool(call) ==
    /\ Served([op |-> "executeToolCalls", call |-> call],
              RunToolOnce(isInitialized, documentData, call))
    /\ UNCHANGED documentData

ExecuteGetSectionById(id) ==
    /\ Served([op |-> "executeGetSectionById", id |-> id],
              executeGetSectionById(isInitialized, documentData,
                                    Input(Undef, id, Undef, Undef, Undef)))
    /\ UNCHANGED documentData

McpGetSectionById(id) ==
    /\ Served([op |-> "getSectionById", id |-> id],
              mcpGetSectionById(isInitialized, documentData,
                                Input(Undef, id, Undef, Undef, Undef)))
    /\ UNCHANGED documentData

SectionRoute(id, highlight) ==
    LET answer == sectionRoute(isInitialized, documentData, id, highlight)
    IN  /\ Served([op |-> "sectionRoute", id |-> id, highlight |-> highlight],
                  [threw |-> FALSE, error |-> "",
                   value |-> [status |-> answer.status, section |-> answer.section]])
        /\ documentData' = answer.data

\* the answer is handed to the caller
Respond ==
    /\ pc = "served"
    /\ pc' = "idle"
    /\ args' = <<>>
    /\ result' = <<>>
    /\ UNCHANGED <<cache, client, isInitialized, documentData, query, conversationHistory,
                   currentResponse, iterationCount, requests, toolRuns, failure>>

ServeNext ==
    \/ Next
    \/ InitializeFails
    \/ GetDocumentData
    \/ \E id \in LookupIds : GetSection(id)
    \/ GetDocumentStructure
    \/ \E q \in ServeQueries, limit \in ServeLimits : SearchSections(q, limit)
    \/ \E k \in 1..Len(Catalog) : ExecuteTool(Catalog[k])
    \/ \E id \in LookupIds : ExecuteGetSectionById(id)
    \/ \E id \in LookupIds : McpGetSectionById(id)
    \/ \E id \in LookupIds, highlight \in HighlightTerms : SectionRoute(id, highlight)
    \/ Respond

ServeSpec == Init /\ [][ServeNext]_vars

-----------------------------------------------------------------------------
(* CacheService and the use processQuery makes of it (CacheSpec).  The
   NodeCache is the sequence of its entries [key, value, expired] in the
   order in which the keys were created; an entry whose time to live has
   passed stays in the cache, marked expired, until a get of its key deletes
   it.  queryDocument is a request that the model answers or fails. *)

\* CACHE_MAX_SIZE of the environment (maxKeys)
CACHE_MAX_SIZE == 2

\* the lookups that are followed between two calls of clear()
MaxLookups == 4

\* findSimilarQuery: threshold = 0.7, in tenths
ThresholdTenths == 7

\* the fields of extra laid over those of r: { ...r, ...extra }
Spread(r, extra) ==
    [f \in DOMAIN r \cup DOMAIN extra |-> IF f \in DOMAIN extra THEN extra[f] ELSE r[f]]

\* `query:${generateHash(normalizeText(query))}`; the hash is taken to tell
\* the queries of the model apart
generateKey(q) == normalizeText(q)

\* NodeCache.get: the value of a live entry, undefined otherwise
nodeCacheGet(entries, key) ==
    IF \E i \in 1..Len(entries) : entries[i].key = key /\ ~entries[i].expired
    THEN entries[CHOOSE i \in 1..Len(entries) : entries[i].key = key].value
    ELSE Undef

\* NodeCache.get deletes the entry of the key when it has expired
nodeCacheAfterGet(entries, key) ==
    SelectSeq(entries, LAMBDA e : ~(e.key = key /\ e.expired))

\* CacheService.get: [value, cache]; one of the counters is incremented
cacheGet(c, q) ==
    LET key    == generateKey(q)
        found  == nodeCacheGet(c.entries, key)
        after  == nodeCacheAfterGet(c.entries, key)
    IN  IF found # Undef
        THEN [value |-> found,
              cache |-> [c EXCEPT !.entries = after, !.hitCount = @ + 1]]
        ELSE [value |-> Null,
              cache |-> [c EXCEPT !.entries = after, !.missCount = @ + 1]]

\* calculateSimilarity(text1, text2) >= threshold
Similar(text1, text2) ==
    LET words1 == RangeOf(extractKeywords(text1))
        words2 == RangeOf(extractKeywords(text2))
    IN  /\ Truthy(text1) /\ Truthy(text2)
        /\ words1 # {} /\ words2 # {}
        /\ 10 * Cardinality(words1 \cap words2)
              >= ThresholdTenths * Cardinality(words1 \cup words2)

\* getCachedQueries: cache.get of every key, which deletes the expired
\* entries; the query of an entry that is gone reads 'Unknown'
getCachedQueries(entries) ==
    [i \in 1..Len(entries) |->
        [key   |-> entries[i].key,
         query |-> IF ~entries[i].expired /\ Truthy(entries[i].value.query)
                   THEN entries[i].value.query
                   ELSE Str(<<"Unknown">>)]]

\* findSimilarQuery: [value, cache]; cache.get of the first similar query
findSimilarQuery(c, q) ==
    LET cached == getCachedQueries(c.entries)
        live   == SelectSeq(c.entries, LAMBDA e : ~e.expired)
        hits   == {i \in 1..Len(cached) : Similar(q, cached[i].query)}
        first  == CHOOSE i \in hits : \A j \in hits : i <= j
    IN  [value |-> IF hits = {} THEN Null ELSE nodeCacheGet(live, cached[first].key),
         cache |-> [c EXCEPT !.entries = live]]

\* CacheService.getWithSemantic: [value, cache]
getWithSemantic(c, q, useSemantic) ==
    LET exactMatch == cacheGet(c, q)
        similar    == findSimilarQuery(exactMatch.cache, q)
    IN  IF exactMatch.value # Null THEN exactMatch
        ELSE IF useSemantic
        THEN IF similar.value \notin {Null, Undef}
             THEN [value |-> similar.value,
                   cache |-> [similar.cache EXCEPT !.hitCount = @ + 1]]
             ELSE [value |-> Null, cache |-> similar.cache]
        ELSE [value |-> Null, cache |-> exactMatch.cache]

\* CacheService.set whose cache.set stores nothing and answers false
cacheSetFailing(c, q, response) == [threw |-> FALSE, cache |-> c]

\* CacheService.set: [threw, cache].  NodeCache.set throws ECACHEFULL when
\* the cache holds maxKeys keys, before it looks whether the key is there;
\* the entry of a key that is there is replaced in its place
cacheSet(c, q, response) ==
    LET key   == generateKey(q)
        entry == [key |-> key, expired |-> FALSE,
                  value |-> Spread(response, [cachedAt |-> "now", query |-> q])]
    IN  IF Len(c.entries) >= CACHE_MAX_SIZE
        THEN [threw |-> TRUE, cache |-> c]
        ELSE IF \E i \in 1..Len(c.entries) : c.entries[i].key = key
        THEN [threw |-> FALSE,
              cache |-> [c EXCEPT !.entries =
                            [i \in 1..Len(c.entries) |->
                                IF c.entries[i].key = key THEN entry ELSE c.entries[i]]]]
        ELSE [threw |-> FALSE, cache |-> [c EXCEPT !.entries = Append(@, entry)]]

CacheQueries == {Str(<<"IRS", "tax", "credit", "change">>),
                 Str(<<"irs", "tax", "credit">>),
                 Str(<<"defense", "budget">>)}

\* what queryDocument answers to a query
llmResponseTo(normalizedQuery) ==
    [answer |-> Str(<<"about">> \o normalizedQuery.w), sections |-> Undef,
     keyPoints |-> Undef, implications |-> Undef, confidence |-> Undef]

\* in args: the number of lookups since the cache was cleared, and the
\* options of the query being handled
CacheInit ==
    /\ isInitialized = FALSE
    /\ documentData = NoDocument
    /\ pc = "idle"
    /\ query = Undef
    /\ conversationHistory = <<>>
    /\ currentResponse = <<>>
    /\ iterationCount = 0
    /\ requests = <<>>
    /\ toolRuns = <<>>
    /\ failure = "none"
    /\ result = <<>>
    /\ args = [lookups |-> 0, useCache |-> TRUE, useSemantic |-> TRUE]
    /\ cache = NewCache
    /\ client = NewClient

UnchangedByTheCache ==
    UNCHANGED <<client, isInitialized, documentData, conversationHistory,
                currentResponse, iterationCount, toolRuns, failure>>

\* cacheService.get(q), called on its own
CacheGet(q) ==
    /\ pc = "idle"
    /\ args.lookups < MaxLookups
    /\ LET got == cacheGet(cache, q)
       IN  /\ cache' = got.cache
           /\ result' = got.value
    /\ args' = [args EXCEPT !.lookups = @ + 1]
    /\ UNCHANGED <<pc, query, requests>>
    /\ UnchangedByTheCache

\* cacheService.getWithSemantic(q, useSemantic), called on its own
CacheGetWithSemantic(q, useSemantic) ==
    /\ pc = "idle"
    /\ args.lookups < MaxLookups
    /\ LET got == getWithSemantic(cache, q, useSemantic)
       IN  /\ cache' = got.cache
           /\ result' = got.value
    /\ args' = [args EXCEPT !.lookups = @ + 1]
    /\ UNCHANGED <<pc, query, requests>>
    /\ UnchangedByTheCache

\* cacheService.clear()
CacheClear ==
    /\ pc = "idle"
    /\ cache' = NewCache
    /\ args' = [args EXCEPT !.lookups = 0]
    /\ result' = <<>>
    /\ UNCHANGED <<pc, query, requests>>
    /\ UnchangedByTheCache

\* the time to live of an entry passes
Expire(i) ==
    /\ i \in 1..Len(cache.entries)
    /\ ~cache.entries[i].expired
    /\ cache' = [cache EXCEPT !.entries[i].expired = TRUE]
    /\ UNCHANGED <<args, pc, query, requests, result>>
    /\ UnchangedByTheCache

\* processQuery(q, options) up to its return from the cache or to the
\* request of queryDocument
CachedProcessQuery(q, useCache, useSemantic) ==
    /\ pc = "idle"
    /\ useCache => args.lookups < MaxLookups
    /\ query' = q
    /\ LET normalizedQuery == Str(normalizeText(q))
           got == IF useCache THEN getWithSemantic(cache, normalizedQuery, useSemantic)
                  ELSE [value |-> Null, cache |-> cache]
       IN  /\ cache' = got.cache
           /\ IF got.value # Null
              THEN /\ result' = Spread(got.value, [fromCache |-> TRUE])
                   /\ pc' = "done"
                   /\ UNCHANGED requests
              ELSE /\ requests' = Append(requests, normalizedQuery)
                   /\ pc' = "awaitModel"
                   /\ result' = <<>>
    /\ args' = [lookups |-> IF useCache THEN args.lookups + 1 ELSE args.lookups,
                useCache |-> useCache, useSemantic |-> useSemantic]
    /\ UnchangedByTheCache

\* queryDocument resolves: the response is formatted, cached and returned;
\* when cacheService.set throws, the catch block returns the error response
ModelAnswers ==
    /\ pc = "awaitModel"
    /\ LET normalizedQuery == Str(normalizeText(query))
           finalResponse   == formatResponse(llmResponseTo(normalizedQuery), query)
           stored          == IF args.useCache
                              THEN cacheSet(cache, normalizedQuery, finalResponse)
                              ELSE [threw |-> FALSE, cache |-> cache]
       IN  /\ cache' = stored.cache
           /\ result' = IF stored.threw
                        THEN errorResponse("Cache max keys amount exceeded", query)
                        ELSE Spread(finalResponse, [fromCache |-> FALSE])
    /\ pc' = "done"
    /\ UNCHANGED <<args, query, requests>>
    /\ UnchangedByTheCache

\* queryDocument rejects
ModelFails ==
    /\ pc = "awaitModel"
    /\ result' = errorResponse("API request failed", query)
    /\ pc' = "done"
    /\ UNCHANGED <<args, cache, query, requests>>
    /\ UnchangedByTheCache

\* the response is handed to the caller
CacheNextQuery ==
    /\ pc = "done"
    /\ pc' = "idle"
    /\ query' = Undef
    /\ requests' = <<>>
    /\ result' = <<>>
    /\ UNCHANGED <<args, cache>>
    /\ UnchangedByTheCache

CacheNext ==
    \/ \E q \in CacheQueries : CacheGet(q)
    \/ \E q \in CacheQueries, useSemantic \in BOOLEAN : CacheGetWithSemantic(q, useSemantic)
    \/ CacheClear
    \/ \E i \in 1..CACHE_MAX_SIZE : Expire(i)
    \/ \E q \in CacheQueries, useCache, useSemantic \in BOOLEAN :
          CachedProcessQuery(q, useCache, useSemantic)
    \/ ModelAnswers
    \/ ModelFails
    \/ CacheNextQuery

CacheSpec == CacheInit /\ [][CacheNext]_vars

-----------------------------------------------------------------------------
(* The MCP launcher: main() of mcpLauncher.js, run on a document that is
   held in args (LaunchSpec).  Nothing else runs in the process, so the
   steps of main are one action; result is the log of what main has done. *)

\* the methods of the DocumentParser instance that are functions
DocumentParserMethods ==
    {"initialize", "buildDocumentStructure", "extractMetadata", "extractTableOfContents",
     "processSectionsSimple", "extractSectionDataSimple", "extractTextContent",
     "extractAllTextRecursive", "buildSearchIndex", "getDocumentData", "getSection",
     "searchSections", "getDocumentStructure"}

\* the method main calls to initialize the parser
LauncherCall == "init"

\* main(): the value of `documentParser.init` is called; when it is not a
\* function the call throws a TypeError, and the catch block exits with
\* code 1.  Otherwise the parser is initialized, then the server is created,
\* then run, then reported ready; an error of the initialization exits too.
mainOutcome(tree) ==
    LET built == buildDocumentStructureOf(tree)
    IN  IF LauncherCall \notin DocumentParserMethods
        THEN [pc |-> "exited", failure |-> "TypeError: documentParser.init is not a function",
              isInitialized |-> FALSE, documentData |-> NoDocument, log |-> <<"starting">>]
        ELSE IF built.threw
        THEN [pc |-> "exited", failure |-> "TypeError",
              isInitialized |-> FALSE, documentData |-> NoDocument, log |-> <<"starting">>]
        ELSE [pc |-> "running", failure |-> "none",
              isInitialized |-> TRUE, documentData |-> built.value,
              log |-> <<"starting", "initialized", "created", "started", "ready">>]

main ==
    /\ pc = "idle"
    /\ LET outcome == mainOutcome(args)
       IN  /\ pc' = outcome.pc
           /\ failure' = outcome.failure
           /\ isInitialized' = outcome.isInitialized
           /\ documentData' = outcome.documentData
           /\ result' = outcome.log
    /\ UNCHANGED <<args, cache, client, query, conversationHistory, currentResponse,
                   iterationCount, requests, toolRuns>>

LaunchNext == main

LaunchSpec == IndexInit /\ [][LaunchNext]_vars

\* the process runs main
FairLaunchSpec == LaunchSpec /\ WF_vars(main)

-----------------------------------------------------------------------------
(* The browser client: App.processQuery and the handlers of QueryInterface
   (ClientSpec).  client.inFlight holds the query of every fetch that was
   started and has not settled. *)

\* the fetches that are followed at a time
MaxInFlight == 2

\* QueryInterface.maxLength
maxLength == 1000

\* what the query input can hold; "long" stands for a text of 1001 characters
InputTexts == {"", " ", "tax", "farm", "long"}

LengthOf(text) == IF text = "long" THEN maxLength + 1 ELSE Len(text)

\* String.prototype.trim
Trim(text) == IF text = " " THEN "" ELSE text

\* updateSubmitButton: disabled = !isValid || isLoading
updateSubmitButton(c) ==
    LET q       == Trim(c.input)
        isValid == LengthOf(q) > 0 /\ LengthOf(q) <= maxLength
    IN  [c EXCEPT !.disabled = ~isValid \/ c.isLoading]

\* setLoading(isLoading)
setLoading(c, isLoading) ==
    IF isLoading THEN [c EXCEPT !.disabled = TRUE] ELSE updateSubmitButton(c)

\* App.processQuery up to its fetch: an empty query shows the error modal,
\* any other query sets isLoading and starts a fetch
startQuery(c, q) ==
    IF Trim(q) = ""
    THEN [c EXCEPT !.modal = TRUE]
    ELSE setLoading([c EXCEPT !.isLoading = TRUE, !.inFlight = Append(@, q)], TRUE)

\* handleSubmit: the query is the trimmed text of the input
handleSubmit(c) ==
    LET q == Trim(c.input)
    IN  IF q = "" \/ LengthOf(q) > maxLength THEN c ELSE startQuery(c, q)

\* the ends of a fetch: a response with success, a response without, a
\* network error, the abort after 90 seconds
FetchOutcomes == {"success", "error", "rejected", "AbortError"}

\* the `input` event of the query input
InputEvent(text) ==
    /\ client' = updateSubmitButton([client EXCEPT !.input = text])
    /\ UNCHANGED <<args, cache, isInitialized, documentData, pc, query, conversationHistory,
                   currentResponse, iterationCount, requests, toolRuns, failure, result>>

\* a click on the submit button, which a disabled button does not deliver
ClickSubmit ==
    /\ ~client.disabled
    /\ Len(client.inFlight) < MaxInFlight
    /\ client' = handleSubmit(client)
    /\ UNCHANGED <<args, cache, isInitialized, documentData, pc, query, conversationHistory,
                   currentResponse, iterationCount, requests, toolRuns, failure, result>>

\* Ctrl+Enter or Cmd+Enter in the query input
CtrlEnter ==
    /\ Len(client.inFlight) < MaxInFlight
    /\ client' = handleSubmit(client)
    /\ UNCHANGED <<args, cache, isInitialized, documentData, pc, query, conversationHistory,
                   currentResponse, iterationCount, requests, toolRuns, failure, result>>

\* the i-th fetch in flight settles: the rest of processQuery with its
\* catch and finally blocks
FetchSettles(i, outcome) ==
    /\ i \in 1..Len(client.inFlight)
    /\ LET q       == client.inFlight[i]
           rest    == [j \in 1..(Len(client.inFlight) - 1) |->
                          IF j < i THEN client.inFlight[j] ELSE client.inFlight[j + 1]]
           settled == IF outcome = "success"
                      THEN [client EXCEPT !.inFlight = rest]
                      ELSE [client EXCEPT !.inFlight = rest, !.modal = TRUE,
                                          !.lastFailedAction = q]
       IN  client' = setLoading([settled EXCEPT !.isLoading = FALSE], FALSE)
    /\ UNCHANGED <<args, cache, isInitialized, documentData, pc, query, conversationHistory,
                   currentResponse, iterationCount, requests, toolRuns, failure, result>>

\* a click on the retry button of the error modal
ClickRetry ==
    /\ client.modal
    /\ Len(client.inFlight) < MaxInFlight
    /\ client' = IF client.lastFailedAction # ""
                 THEN startQuery([client EXCEPT !.modal = FALSE], client.lastFailedAction)
                 ELSE [client EXCEPT !.modal = FALSE]
    /\ UNCHANGED <<args, cache, isInitialized, documentData, pc, query, conversationHistory,
                   currentResponse, iterationCount, requests, toolRuns, failure, result>>

\* a click on the close or dismiss button of the error modal
DismissError ==
    /\ client.modal
    /\ client' = [client EXCEPT !.modal = FALSE]
    /\ UNCHANGED <<args, cache, isInitialized, documentData, pc, query, conversationHistory,
                   currentResponse, iterationCount, requests, toolRuns, failure, result>>

ClientNext ==
    \/ \E text \in InputTexts : InputEvent(text)
    \/ ClickSubmit
    \/ CtrlEnter
    \/ \E i \in 1..MaxInFlight, outcome \in FetchOutcomes : FetchSettles(i, outcome)
    \/ ClickRetry
    \/ DismissError

ClientSpec == Init /\ [][ClientNext]_vars

-----------------------------------------------------------------------------
(* Properties of the response normalizer (ParseSpec) *)

FieldNames == {"answer", "sections", "keyPoints", "implications", "confidence"}

\* parseResponse returned for a text that is one JSON object in some words
ParsedAPayload ==
    /\ pc = "parsed"
    /\ Len(args) = 1 /\ args[1].k = "object"
    /\ ~result.threw

FallbackImplications == Str(<<"Based on the analysis provided above.">>)

\* C11: for every text from which an object is parsed, every field that the
\* object lacks is set to the default of the fallback path (the fallback's
\* implications sentence, confidence 'medium', sections empty), and all five
\* fields are present in the result, whichever fields are absent.
C11_AbsentFieldsGetTheFallbackDefaults ==
    ParsedAPayload =>
        LET payload == Payloads[args[1].p]
        IN  /\ \A f \in FieldNames : result.value[f] # Undef
            /\ \A f \in FieldNames : payload[f] # Undef => result.value[f] = payload[f]
            /\ payload.sections = Undef => result.value.sections = Arr(<<>>)
            /\ payload.implications = Undef
                  => result.value.implications = FallbackImplications
            /\ payload.confidence = Undef => result.value.confidence = Str(<<"medium">>)

\* C12: when the text holds a valid JSON object followed by further text
\* with a closing brace, the first balanced block is parsed: the result has
\* the answer and the sections of that object.
C12_FirstBalancedBlockIsParsed ==
    (/\ pc = "parsed"
     /\ Len(args) = 2 /\ args[1].k = "object" /\ HasClose(args[2]))
      => /\ ~result.threw
         /\ result.value.answer = Payloads[args[1].p].answer
         /\ result.value.sections = Payloads[args[1].p].sections

ConfidenceLevels == {Str(<<"high">>), Str(<<"medium">>), Str(<<"low">>)}

\* C13: the confidence of every structured answer parseResponse returns, and
\* of every successful response of processQuery, is 'high', 'medium' or
\* 'low', whatever the payload of the model carried.
C13_ConfidenceIsOneOfThree ==
    /\ (pc = "parsed" /\ ~result.threw) => result.value.confidence \in ConfidenceLevels
    /\ (pc = "done" /\ args # <<>> /\ result.success)
          => result.confidence \in ConfidenceLevels

\* the text has no brace and is no JSON text
NoPayload(text) ==
    \A i \in 1..Len(text) : text[i].k \in {"prose", "bullet", "blank"}

MarkerLines(text) == SelectSeq(text, LAMBDA line : line.k = "bullet")

\* C14: when the text has no parseable payload, keyPoints is the sequence of
\* all the lines that start with a list marker, in their order and without
\* the marker, however many there are, and confidence is 'medium'.
C14_KeyPointsAreAllTheListItems ==
    (pc = "parsed" /\ NoPayload(args)) =>
        /\ ~result.threw
        /\ result.value.keyPoints
              = Arr([i \in 1..Len(MarkerLines(args)) |-> MarkerLines(args)[i].s])
        /\ result.value.confidence = Str(<<"medium">>)

-----------------------------------------------------------------------------
(* Properties of the retrieval engine (SearchSpec) *)

\* searchSections has returned
Searched == pc = "done" /\ args.op = "searchSections" /\ ~result.threw

QueryTokens == RangeOf(extractKeywords(args.query))

\* the query tokens under which the inverted index lists the section
ListedUnder(id) ==
    {k \in QueryTokens \cap DOMAIN documentData.searchIndex :
        id \in RangeOf(documentData.searchIndex[k])}

\* C15: the score reported for a section is the number of distinct query
\* tokens under which the inverted index lists the section; a token that is
\* repeated in the query changes no score.
C15_ScoreCountsDistinctTokens ==
    Searched =>
        \A i \in 1..Len(result.value) :
            result.value[i].score = Cardinality(ListedUnder(result.value[i].section))

\* the section ids in the order in which the scan of the query tokens and of
\* their index lists meets them
ScanOrder == Hits(documentData.searchIndex, extractKeywords(args.query), 1)

FirstMet(id) == CHOOSE i \in 1..Len(ScanOrder) :
                    ScanOrder[i] = id /\ \A j \in 1..(i - 1) : ScanOrder[j] # id

\* a ranks before b: a higher score, or the same score and met earlier
RanksBefore(a, b) ==
    \/ Count(ScanOrder, a) > Count(ScanOrder, b)
    \/ Count(ScanOrder, a) = Count(ScanOrder, b) /\ FirstMet(a) < FirstMet(b)

ReturnedIds == {result.value[i].section : i \in 1..Len(result.value)}

\* C16: the result is in non-increasing score order, sections of equal score
\* in the order in which they were first met; for a limit that is not negative
\* it has at most `limit` entries, and these are the highest-ranked ones.
C16_RankedAndTruncated ==
    (Searched /\ limitOf(args.limit).n >= 0) =>
        /\ \A i, j \in 1..Len(result.value) :
              i < j => RanksBefore(result.value[i].section, result.value[j].section)
        /\ Len(result.value) <= limitOf(args.limit).n
        /\ \A a \in ReturnedIds : \A b \in RangeOf(ScanOrder) \ ReturnedIds :
              RanksBefore(a, b)

TokenlessQueries == {Str(<<>>), Str(<<"the", "of", "and">>)}

\* C17: a section is returned only if a keyword token of the query is among
\* the tokens of its title or fullText, every score is at least 1, and a
\* query without tokens (empty, stop words only) returns the empty list and
\* does not raise.
C17_OnlyMatchingSections ==
    (pc = "done" /\ args.op = "searchSections") =>
        /\ ~result.threw =>
              \A i \in 1..Len(result.value) :
                  /\ result.value[i].score >= 1
                  /\ QueryTokens
                        \cap IndexedWords(documentData.sections[result.value[i].section]) # {}
        /\ args.query \in TokenlessQueries => ~result.threw /\ result.value = <<>>

\* search("farm") on {A: "farm subsidy program", B: "defense spending budget"}
\* has returned A and not B
C17_Witness ==
    /\ Searched
    /\ args.query = Str(<<"farm">>)
    /\ documentData = SnapshotOf(LetterIds(2), <<"farm", "defense">>)
    /\ ReturnedIds = {"H1A"}

\* the words of phrase stand next to each other in words
ContainsPhrase(words, phrase) ==
    \E i \in 1..(Len(words) - Len(phrase) + 1) :
        SubSeq(words, i, i + Len(phrase) - 1) = phrase

TaxCreditSections ==
    {id \in DOMAIN documentData.sections :
        ContainsPhrase(documentData.sections[id].fullText.w, <<"tax", "credit">>)}

\* a topic search for 'tax' with limit 5 has returned
TaxTopicSearched ==
    /\ pc = "done"
    /\ args.op \in {"searchByTopic", "executeSearchByTopic"}
    /\ args.query = Str(<<"tax">>)
    /\ args.limit = Num(5)

\* C18 (as stated): for topic 'tax' and limit 5, on every snapshot, every
\* section whose fullText contains 'tax credit' is in the result.
C18_Original ==
    TaxTopicSearched =>
        ~result.threw /\ TaxCreditSections \subseteq RangeOf(result.results)

\* the sections listed under a keyword of the topic 'tax'
TaxTopicMatches ==
    {id \in DOMAIN documentData.sections :
        IndexedWords(documentData.sections[id])
            \cap RangeOf(extractKeywords(Str(JoinOr(topicKeywords.tax, 1)))) # {}}

\* C18 (amended): for topic 'tax' and limit 5, every section whose fullText
\* contains 'tax credit' is in the result of DocumentMCPServer.searchByTopic
\* when at most 5 sections of the snapshot match a keyword of the topic, and
\* in the result of the search_by_topic tool of LLMService when at most 3 do.
C18_IncludedWhenNotTruncated ==
    TaxTopicSearched =>
        /\ ~result.threw
        /\ Cardinality(TaxTopicMatches)
              <= (IF args.op = "searchByTopic" THEN args.limit.n ELSE ResultCap)
              => TaxCreditSections \subseteq RangeOf(result.results)

\* the tool has returned the three 'tax credit' sections of a snapshot that
\* holds other sections too
C18_Witness ==
    /\ TaxTopicSearched
    /\ args.op = "executeSearchByTopic"
    /\ Cardinality(TaxCreditSections) = ResultCap
    /\ Cardinality(DOMAIN documentData.sections) > ResultCap
    /\ TaxCreditSections = RangeOf(result.results)

-----------------------------------------------------------------------------
(* Properties of the indexer (IndexSpec) *)

\* the id of the nearest node above n that has an id, null when none has
RECURSIVE NearestIdAncestor(_, _)
NearestIdAncestor(tree, n) ==
    LET p == tree[n].parent
    IN  IF p = 0 THEN Null
        ELSE IF tree[p].id # "" THEN Str(<<tree[p].id>>)
        ELSE NearestIdAncestor(tree, p)

\* C19: the parentId of every section of the map is the id of the nearest
\* enclosing node with an id of an element that has the section's id, also
\* across wrapper nodes without an id; it is null only if no enclosing node
\* has an id.
C19_ParentIsNearestIdAncestor ==
    isInitialized =>
        \A id \in DOMAIN documentData.sections :
            \E n \in 1..Len(args) :
                /\ args[n].id = id
                /\ documentData.sections[id].parentId = NearestIdAncestor(args, n)

C21_ChildrenListTheChildSections ==
    isInitialized =>
        \A p, c \in DOMAIN documentData.sections :
            documentData.sections[c].parentId = Str(<<p>>)
                <=> c \in RangeOf(documentData.sections[p].children)

\* C22: after indexing, a section id is listed under a keyword exactly when
\* the keyword is among the keyword tokens of the section's title or fullText,
\* and no list of the index holds a section id twice.
C22_IndexListsExactlyTheSectionsWithTheKeyword ==
    isInitialized =>
        /\ \A id \in DOMAIN documentData.sections :
              \A k \in RangeOf(extractKeywords(documentData.sections[id].title))
                        \cup RangeOf(extractKeywords(documentData.sections[id].fullText)) :
                  /\ k \in DOMAIN documentData.searchIndex
                  /\ id \in RangeOf(documentData.searchIndex[k])
        /\ \A k \in DOMAIN documentData.searchIndex :
              /\ \A i, j \in 1..Len(documentData.searchIndex[k]) :
                    documentData.searchIndex[k][i] = documentData.searchIndex[k][j] => i = j
              /\ \A id \in RangeOf(documentData.searchIndex[k]) :
                    /\ id \in DOMAIN documentData.sections
                    /\ k \in RangeOf(extractKeywords(documentData.sections[id].title))
                             \cup RangeOf(extractKeywords(documentData.sections[id].fullText))

\* a document with two sections has been indexed; a keyword lists both, and
\* another keyword lists one of them only
C22_Witness ==
    /\ isInitialized
    /\ \E k1, k2 \in DOMAIN documentData.searchIndex :
          /\ Len(documentData.searchIndex[k1]) = 2
          /\ Len(documentData.searchIndex[k2]) = 1
          /\ Cardinality(DOMAIN documentData.sections) = 2

-----------------------------------------------------------------------------
(* Properties of the readers of the snapshot (ServeSpec) *)

\* C23: once the parser is initialized, no step (a getter, a search, a tool,
\* the section route with highlighting, the handling of a query) changes the
\* section map or the inverted index.
C23_RetrievalLeavesTheSnapshotUnchanged ==
    [][isInitialized => documentData' = documentData]_vars

\* the section route has answered a section with highlighted text
C23_Witness ==
    /\ isInitialized
    /\ pc = "served"
    /\ args.op = "sectionRoute"
    /\ result.value.status = 200
    /\ result.value.section.title # documentData.sections[args.id.w[1]].title

Getters == {"getDocumentData", "getSection", "searchSections", "getDocumentStructure"}

\* C24: while the parser is not initialized (initialize not called, running,
\* or failed) the four getters throw 'not initialized' and return nothing;
\* isInitialized holds only with the completely built snapshot.
C24_NoDataBeforeInitialization ==
    /\ (pc = "served" /\ args.op \in Getters /\ ~isInitialized) =>
          /\ result.threw
          /\ result.error = NotInitialized
          /\ result.value \in {Undef, <<>>}
    /\ isInitialized => documentData = buildDocumentStructure

\* initialize has failed and searchSections has thrown
C24_Witness ==
    /\ ~isInitialized
    /\ failure = "ParseError"
    /\ pc = "served"
    /\ args.op = "searchSections"
    /\ result.threw

\* C25: after initialization, the lookup of an id that is not in the section
\* map raises no exception, in getSection, in the get_section_by_id tool, in
\* getSectionById of the MCP server and in the section route.
C25_MissingIdNeverThrows ==
    (/\ pc = "served"
     /\ isInitialized
     /\ args.op \in {"getSection", "executeGetSectionById", "getSectionById", "sectionRoute"}
     /\ args.id.w[1] \notin DOMAIN documentData.sections)
        => ~result.threw

-----------------------------------------------------------------------------
(* Properties of the cache (CacheSpec) *)

\* the cache holds a live entry for the query
Cached(q) ==
    \E i \in 1..Len(cache.entries) :
        cache.entries[i].key = generateKey(q) /\ ~cache.entries[i].expired

\* C26: with caching enabled, a query whose response is in the cache and has
\* not expired is answered from the cache, marked fromCache, and no request
\* is sent to the model; and when a query has been answered by the model, its
\* response is in the cache, so that the next identical query is answered
\* from the cache.
C26_CachedQueriesDoNotReachTheModel ==
    [][ /\ (pc = "idle" /\ pc' # "idle" /\ args'.useCache /\ Cached(query')) =>
            /\ pc' = "done"
            /\ result'.fromCache
            /\ result'.success
            /\ requests' = requests
        /\ (pc = "awaitModel" /\ pc' = "done" /\ args.useCache /\ result'.success) =>
            /\ ~result'.fromCache
            /\ Cached(query)' ]_vars

\* a query is answered by the model and cached, the same query is then
\* answered from the cache
C26_Witness ==
    /\ pc = "done"
    /\ args.useCache
    /\ result.success
    /\ result.fromCache
    /\ requests = <<>>
    /\ cache.hitCount = 1
    /\ cache.missCount = 1
    /\ Len(cache.entries) = 1
    /\ cache.entries[1].key = generateKey(query)

\* C29: since the last clear(), hitCount + missCount is the number of
\* lookups (get, getWithSemantic) that were made.
C29_EveryLookupCountsOnce ==
    cache.hitCount + cache.missCount = args.lookups

-----------------------------------------------------------------------------
(* Properties of the MCP launcher (FairLaunchSpec) *)

\* the document in args loads and parses
DocumentLoads == ~buildDocumentStructureOf(args).threw

\* C27: when the document loads and parses, the launcher initializes the
\* parser, then creates and starts the server, and at last is running and
\* ready; the server is not started before the parser is initialized.
C27_LauncherReachesRunning ==
    /\ [](("started" \in RangeOf(result)) => isInitialized)
    /\ DocumentLoads ~> (pc = "running" /\ isInitialized)

-----------------------------------------------------------------------------
(* Properties of the conversation sent to the model (Spec) *)

\* C28: in every request of a query, the forced final request included, the
\* messages start with a user message and alternate between the user and
\* assistant roles: no two consecutive messages have the same role.
C28_RolesAlternate ==
    \A r \in 1..Len(requests) :
        /\ requests[r].messages[1].role = "user"
        /\ \A i \in 1..(Len(requests[r].messages) - 1) :
              requests[r].messages[i].role # requests[r].messages[i + 1].role

-----------------------------------------------------------------------------
(* Properties of the browser client (ClientSpec) *)

\* C30: at most one query request is in flight at a time, and isLoading is
\* true as long as a request is in flight.
C30_OneRequestInFlight ==
    /\ Len(client.inFlight) <= 1
    /\ client.inFlight # <<>> => client.isLoading

====
